---- MODULE Spec2Model ----
(***************************************************************************)
(* A model of the handle-lifetime bookkeeping of quickjs-emscripten:       *)
(* QuickJSDeferredPromise (ts/deferred-promise.ts) and the QuickJSContext  *)
(* operations it rests on (context source, unnamed/part_000).              *)
(*                                                                         *)
(* The foreign runtime is seen through its flat primitives (QTS_...).      *)
(* Every raw JSValue pointer the primitives hand out is an entry of ptrs;  *)
(* every host-side Lifetime is an entry of handles.  Each operation is one *)
(* action; the primitives it invoked, in order, are left in last.ffi.      *)
(*                                                                         *)
(* Host code is written as operators from a world (the state an operation  *)
(* works on) to a step (the world it leaves, what it raised, what it       *)
(* returned); a sequence of statements is a nesting of such operators.     *)
(***************************************************************************)
EXTENDS Integers, Sequences, FiniteSets, TLC

\* ------------------------------------------------------------------ bounds
MaxPromises == 1     \* deferred promises created in one run
MaxCalls == 2        \* foreign calls and evaluations (QTS_Call, QTS_Eval) in one run
MaxObjects == 2      \* values created with newObject in one run
MaxFns == 1          \* host functions registered in one run
MaxDispatch == 1     \* inbound foreign calls dispatched in one run
MaxPtrs == 8         \* JSValue pointers handed out in one run
MaxDefines == 1      \* properties defined with defineProp in one run
MaxDups == 3         \* duplicates taken with dup() in one run
MaxConversions == 1  \* promises converted with resolvePromise in one run
ConversionPtrs == 14 \* JSValue pointers one conversion and its job may hand out on top
MaxManaged == 3      \* lifetimes handed to QuickJSContextMemory.manage in one run
MaxBorrows == 1      \* property keys passed as handles in one run
MaxBufferPtrs == 2   \* pointers made before the last operation that makes a buffer

\* ------------------------------------------------------------- identities
Ctx == "ctx"         \* the receiving context (QuickJSContext.owner = this)
Other == "other"     \* a second, independent context instance
NoOwner == "none"    \* Lifetime._owner undefined
NoHandle == 0        \* an omitted (undefined) handle argument
NoRaise == "none"    \* the operation returned normally

VARIABLES
    handles,     \* Seq of Lifetime objects: [kind, ptr, owner, alive]
    ptrs,        \* Seq of raw JSValue pointers: [obj, ctx, holder, by, frees, exc]
    deferreds,   \* Seq of QuickJSDeferredPromise: [handle, resolveHandle, rejectHandle,
                 \*   settled: times onSettled fired; invoked / disposed: a resolve or
                 \*   reject call / a dispose call has returned; returned: handle was
                 \*   the result of a host function and was forwarded]
    cUndefined,  \* QuickJSContext._undefined: a handle, or NoHandle while unset
    fnNextId,    \* QuickJSContext.fnNextId
    fnMap,       \* QuickJSContext.fnMap: function id -> implementation
    cGlobal,     \* QuickJSContext._global: a handle, or NoHandle while unset
    cNull,       \* QuickJSContext._null: a handle, or NoHandle while unset
    cTrue,       \* QuickJSContext._true: a handle, or NoHandle while unset
    cFalse,      \* QuickJSContext._false: a handle, or NoHandle while unset
    vm,          \* the foreign runtime's promises: settlements, reactions, pending jobs
    conversions, \* the host promises resolvePromise returned, with their outcomes
    hostScope,   \* a Scope the host made: the handles it manages, and whether it is alive
    memory,      \* QuickJSContextMemory.scope: its entries, and whether it is alive
    pending,     \* the inbound call awaiting its implementation's pending outcome
    last         \* the operation just performed: its name, inputs, outcome and primitives

vars == <<handles, ptrs, deferreds, cUndefined, fnNextId, fnMap, cGlobal, cNull, cTrue, cFalse,
          vm, conversions, hostScope, memory, pending, last>>

\* No inbound call is awaiting a pending outcome.
NoPending == [on |-> FALSE, fn |-> "none", scope |-> <<>>, thisHandle |-> 0, argHandles |-> <<>>]

\* What a host implementation did when invoked: nothing yet.
NoImpl == [fn |-> "none", tag |-> "none", h |-> NoHandle, alive |-> FALSE, raised |-> NoRaise]

\* The state an operation works on.  ffi is the log of primitives invoked by
\* the operation, implCalls the number of host implementations it invoked,
\* scope the handles managed by the Scope the operation runs in, impl what
\* the host implementation it invoked did.
World ==
    [handles |-> handles, ptrs |-> ptrs, deferreds |-> deferreds,
     cUndefined |-> cUndefined, fnNextId |-> fnNextId, fnMap |-> fnMap, pending |-> pending,
     memory |-> memory, hostScope |-> hostScope,
     cGlobal |-> cGlobal, cNull |-> cNull, cTrue |-> cTrue, cFalse |-> cFalse,
     vm |-> vm, conversions |-> conversions,
     ffi |-> <<>>, heap |-> <<>>, implCalls |-> 0, scope |-> <<>>, impl |-> NoImpl]

\* A step of host code: the world it leaves, what it raised, what it returned.
Ok(w, ret) == [w |-> w, raised |-> NoRaise, ret |-> ret]
Raise(w, err) == [w |-> w, raised |-> err, ret |-> NoHandle]

\* ------------------------------------------------- the foreign primitives
\* One primitive call, recorded in order.
Ffi(w, name, p) == [w EXCEPT !.ffi = Append(@, <<name, p>>)]

\* Primitive `by` returns a new JSValue pointer.  obj = 0 makes a new foreign
\* value (named after the pointer), otherwise one more reference to obj.
\* holder: who must release it ("host", "caller", "runtime", "static").
NewPtr(w, by, obj, ctx, holder, exc) ==
    [w EXCEPT !.ptrs = Append(@, [obj |-> IF obj = 0 THEN Len(w.ptrs) + 1 ELSE obj,
                                  ctx |-> ctx, holder |-> holder, by |-> by,
                                  frees |-> 0, exc |-> exc])]

\* The pointer the last primitive returned.
LastPtr(w) == Len(w.ptrs)
OkLastPtr(w) == Ok(w, LastPtr(w))

\* QTS_FreeValuePointer(ctx, ptr)
FreeValuePointer(w, p) ==
    [Ffi(w, "QTS_FreeValuePointer", p) EXCEPT !.ptrs[p].frees = @ + 1]

\* QTS_DupValuePointer(ctx, ptr): a new pointer to the same foreign value.
DupValuePointer(w, p, holder) ==
    NewPtr(Ffi(w, "QTS_DupValuePointer", p), "QTS_DupValuePointer",
           w.ptrs[p].obj, w.ptrs[p].ctx, holder, FALSE)

\* freeJSValue calling no primitive.
freeJSValue_Nothing(w, p) == w

\* copyJSValue handing back the pointer it was given.
copyJSValue_Alias(w, p) == w

\* QuickJSContextMemory.freeJSValue / copyJSValue
freeJSValue(w, p) == FreeValuePointer(w, p)
copyJSValue(w, p) == DupValuePointer(w, p, "host")

\* ------------------------------------------------------------- Lifetime
NewHandle(w, kind, p, owner) ==
    [w EXCEPT !.handles = Append(@, [kind |-> kind, ptr |-> p, owner |-> owner,
                                     alive |-> TRUE])]

\* The Lifetime constructed last.
LastHandle(w) == Len(w.handles)
OkLastHandle(w) == Ok(w, LastHandle(w))

\* new Lifetime(ptr, copyJSValue, freeJSValue, owner) over the pointer just returned
NewOwned(w, owner) == NewHandle(w, "owned", LastPtr(w), owner)

\* Lifetime.alive
Alive(w, h) == w.handles[h].alive

\* Lifetime.dispose(): idempotent; the owned variant calls its free primitive
\* once, the weak (borrowed) variant calls none, the static variant does nothing.
LifetimeDispose(w, h) ==
    IF w.handles[h].kind = "static" \/ ~w.handles[h].alive THEN w
    ELSE [(IF w.handles[h].kind = "owned" THEN freeJSValue(w, w.handles[h].ptr) ELSE w)
            EXCEPT !.handles[h].alive = FALSE]

\* if (handle.alive) handle.dispose()
DisposeIfAlive(w, h) == IF Alive(w, h) THEN LifetimeDispose(w, h) ELSE w

\* Lifetime.dup(): a new owned Lifetime sharing owner, dup and free.
LifetimeDup(w, h) ==
    IF w.handles[h].kind = "static" THEN Ok(w, h)
    ELSE IF ~w.handles[h].alive THEN Raise(w, "UseAfterFree")
    ELSE OkLastHandle(NewOwned(copyJSValue(w, w.handles[h].ptr), w.handles[h].owner))

\* QuickJSContextMemory.heapValueHandle(ptr)
heapValueHandle(w, p) == NewHandle(w, "owned", p, Ctx)

\* heapValueHandle over the pointer primitive `by` returns
WrapNew(w, by) == heapValueHandle(NewPtr(w, by, 0, Ctx, "host", FALSE), Len(w.ptrs) + 1)

\* QuickJSContextMemory.assertOwned(handle): TRUE when the assertion passes.
assertOwned(w, h) ==
    ~(w.handles[h].owner # NoOwner /\ w.handles[h].owner # Ctx)

\* this._undefined = new StaticLifetime(ptr)
CacheUndefined(w) ==
    Ok([w EXCEPT !.cUndefined = LastHandle(w)], LastHandle(w))

\* const ptr = this.ffi.QTS_Get...(); new StaticLifetime(ptr)
NewStatic(w, by) ==
    NewHandle(NewPtr(Ffi(w, by, 0), by, 0, Ctx, "static", FALSE), "static", Len(w.ptrs) + 1,
              NoOwner)

\* get undefined() asking the runtime on every access.
getUndefined_Uncached(w) == CacheUndefined(NewStatic(w, "QTS_GetUndefined"))

\* get undefined(): cached after the first access.
getUndefined(w) ==
    IF w.cUndefined # NoHandle THEN Ok(w, w.cUndefined)
    ELSE CacheUndefined(NewStatic(w, "QTS_GetUndefined"))

\* get null(), get true(), get false(): each cached after the first access.
getNull(w) ==
    IF w.cNull # NoHandle THEN Ok(w, w.cNull)
    ELSE Ok([NewStatic(w, "QTS_GetNull") EXCEPT !.cNull = Len(w.handles) + 1],
            Len(w.handles) + 1)
getTrue(w) ==
    IF w.cTrue # NoHandle THEN Ok(w, w.cTrue)
    ELSE Ok([NewStatic(w, "QTS_GetTrue") EXCEPT !.cTrue = Len(w.handles) + 1],
            Len(w.handles) + 1)
getFalse(w) ==
    IF w.cFalse # NoHandle THEN Ok(w, w.cFalse)
    ELSE Ok([NewStatic(w, "QTS_GetFalse") EXCEPT !.cFalse = Len(w.handles) + 1],
            Len(w.handles) + 1)

\* ------------------------------------------------------ context operations
\* A VmCallResult: exactly one of the branches holds a handle.
NoResult == [value |-> NoHandle, error |-> NoHandle]
ValueResult(w) == Ok(w, [value |-> LastHandle(w), error |-> NoHandle])
ErrorResult(w) == Ok(w, [value |-> NoHandle, error |-> LastHandle(w)])

\* The handles of a sequence of arguments that are read through .value
AllAlive(w, hs) == \A i \in 1..Len(hs) : Alive(w, hs[i])

\* QTS_ResolveException(ctx, resultPtr): a pointer to the pending exception
\* when resultPtr is the exception marker, 0 otherwise.
ResolveException(w, resultPtr) ==
    IF w.ptrs[resultPtr].exc
    THEN OkLastPtr(NewPtr(Ffi(w, "QTS_ResolveException", resultPtr), "QTS_ResolveException",
                          0, Ctx, "host", FALSE))
    ELSE Ok(Ffi(w, "QTS_ResolveException", resultPtr), 0)

\* The branches of callFunction and evalCode with the error branch forgetting
\* to free the raw result.
ResultBranches_NoFree(e, resultPtr) ==
    IF e.ret # 0 THEN ErrorResult(heapValueHandle(e.w, e.ret))
    ELSE ValueResult(heapValueHandle(e.w, resultPtr))

\* The branches of callFunction and evalCode: errorPtr set: free the raw
\* result and wrap the error; otherwise wrap the raw result.
ResultBranches(e, resultPtr) ==
    IF e.ret # 0 THEN ErrorResult(heapValueHandle(FreeValuePointer(e.w, resultPtr), e.ret))
    ELSE ValueResult(heapValueHandle(e.w, resultPtr))

\* The tail shared by callFunction and evalCode, resultPtr being the pointer
\* the call primitive just returned.
CallResult(w) == ResultBranches(ResolveException(w, LastPtr(w)), LastPtr(w))

\* The transient buffers of the wasm heap an operation made, in order: what
\* each holds, how often it was released, and how many primitives had been
\* called when it was made and when it was released.
NewBuffer(w, kind) ==
    [w EXCEPT !.heap = Append(@, [kind |-> kind, frees |-> 0, made |-> Len(w.ffi),
                                  freed |-> 0])]

\* memory.newHeapCharPointer(string): the encoded string
newHeapCharPointer(w) == NewBuffer(w, "chars")

\* memory.toPointerArray(handles): the array of the handles' pointers
toPointerArray(w) == NewBuffer(w, "array")

\* dispose() of the buffer made last
BufferDispose(w) ==
    [w EXCEPT !.heap[Len(w.heap)].frees = @ + 1, !.heap[Len(w.heap)].freed = Len(w.ffi)]

\* this.ctx.value raises once the context is disposed.
CtxAlive(w) == w.memory.entries[1].alive

\* What follows the consumed call in callFunction and evalCode, c being its
\* outcome.
AfterCall(c) == IF c.raised # NoRaise THEN c ELSE CallResult(c.w)

\* .consume(argsArrayPtr => QTS_Call(...)) that releases the array only when
\* the call returns.
CallConsuming_Leaking(w, func, thisVal, exc) ==
    IF ~CtxAlive(w) \/ ~AllAlive(w, <<func, thisVal>>) THEN Raise(w, "UseAfterFree")
    ELSE Ok(BufferDispose(NewPtr(Ffi(w, "QTS_Call", w.handles[func].ptr), "QTS_Call",
                                 0, Ctx, "host", exc)), 0)

\* .consume(argsArrayPtr => QTS_Call(this.ctx.value, func.value, thisVal.value,
\* args.length, argsArrayPtr.value)), w holding the array: the array is
\* released whether the call returns or reading a value raises.
CallConsuming(w, func, thisVal, exc) ==
    IF ~CtxAlive(w) \/ ~AllAlive(w, <<func, thisVal>>)
    THEN Raise(BufferDispose(w), "UseAfterFree")
    ELSE Ok(BufferDispose(NewPtr(Ffi(w, "QTS_Call", w.handles[func].ptr), "QTS_Call",
                                 0, Ctx, "host", exc)), 0)

\* callFunction(func, thisVal, ...args).  exc: the foreign call threw.
callFunction(w, func, thisVal, args, exc) ==
    IF ~assertOwned(w, func) THEN Raise(w, "NotOwned")
    ELSE IF ~AllAlive(w, args) THEN Raise(w, "UseAfterFree")      \* toPointerArray reads arg.value
    ELSE AfterCall(CallConsuming(toPointerArray(w), func, thisVal, exc))

\* .consume(charHandle => QTS_Eval(this.ctx.value, charHandle.value, ...)), w
\* holding the encoded source
EvalConsuming(w, exc) ==
    IF ~CtxAlive(w) THEN Raise(BufferDispose(w), "UseAfterFree")
    ELSE Ok(BufferDispose(NewPtr(Ffi(w, "QTS_Eval", 0), "QTS_Eval", 0, Ctx, "host", exc)), 0)

\* evalCode(code).  exc: the evaluation threw.
evalCode(w, exc) == AfterCall(EvalConsuming(newHeapCharPointer(w), exc))

\* dump(handle) of a foreign object (an exception): typeof, then QTS_Dump.
dump(w, h) ==
    IF ~assertOwned(w, h) THEN Raise(w, "NotOwned")
    ELSE IF ~Alive(w, h) THEN Raise(w, "UseAfterFree")
    ELSE Ok(Ffi(Ffi(w, "QTS_Typeof", w.handles[h].ptr), "QTS_Dump", w.handles[h].ptr), NoHandle)

\* result.error.consume(error => this.dump(error)) and the throw after it, r
\* being the outcome of dump: the handle is disposed whether or not dump raised.
ConsumedError(r, h) ==
    Raise(LifetimeDispose(r.w, h), IF r.raised # NoRaise THEN r.raised ELSE "HostError")

\* unwrapResult disposing nothing.
unwrapResult_Unconsumed(w, result) ==
    IF result.error # NoHandle THEN Raise(dump(w, result.error).w, "HostError")
    ELSE Ok(w, result.value)

\* unwrapResult(result): the value handle, or the error handle is dumped,
\* disposed (consume) and a host error raised.
unwrapResult(w, result) ==
    IF result.error # NoHandle THEN ConsumedError(dump(w, result.error), result.error)
    ELSE Ok(w, result.value)

\* newObject(): a new owned handle of context c (the same code runs in every
\* context instance; only the primitives of Ctx are logged).
newObject(w, c) ==
    OkLastHandle(NewOwned(NewPtr(IF c = Ctx THEN Ffi(w, "QTS_NewObject", 0) ELSE w,
                                 "QTS_NewObject", 0, c, "host", FALSE), c))

\* ------------------------------------------------ QuickJSDeferredPromise
\* new QuickJSDeferredPromise({owner, promiseHandle, resolveHandle, rejectHandle})
\* over the three handles made last.
NewDeferred(w) ==
    Ok([w EXCEPT !.deferreds = Append(@, [handle |-> Len(w.handles) - 2,
                                          resolveHandle |-> Len(w.handles) - 1,
                                          rejectHandle |-> Len(w.handles),
                                          settled |-> 0, invoked |-> FALSE,
                                          disposed |-> FALSE, returned |-> FALSE])],
       Len(w.deferreds) + 1)

\* newPromise(): QTS_NewPromiseCapability yields the promise and, through the
\* pointer array, the resolve and reject functions; each is wrapped once.
newPromise(w) ==
    NewDeferred(WrapNew(WrapNew(WrapNew(Ffi(w, "QTS_NewPromiseCapability", 0),
                                        "QTS_NewPromiseCapability"),
                                "QTS_NewPromiseCapability"),
                        "QTS_NewPromiseCapability"))

\* disposeResolvers() disposing the resolve callback alone.
disposeResolvers_ResolveOnly(w, d) == DisposeIfAlive(w, w.deferreds[d].resolveHandle)

\* disposeResolvers()
disposeResolvers(w, d) ==
    DisposeIfAlive(DisposeIfAlive(w, w.deferreds[d].resolveHandle),
                   w.deferreds[d].rejectHandle)

\* onSettled(): fires the settled signal (noted in the log after the
\* primitives that preceded it).
onSettled(w, d) == [Ffi(w, "onSettled", d) EXCEPT !.deferreds[d].settled = @ + 1]

\* Settled disposing only the callback that was called.
Settled_OneCallback(r, d, fn) ==
    IF r.raised # NoRaise THEN r
    ELSE Ok(onSettled(LifetimeDispose(LifetimeDispose(r.w, r.ret), fn), d), NoHandle)

\* Settled firing the settled signal before the callbacks are disposed.
Settled_SignalFirst(r, d, fn) ==
    IF r.raised # NoRaise THEN r
    ELSE Ok(disposeResolvers(onSettled(LifetimeDispose(r.w, r.ret), d), d), NoHandle)

\* The tail of resolve and reject, r being the outcome of unwrapResult:
\* .dispose() the unwrapped result, disposeResolvers(), onSettled().
Settled(r, d, fn) ==
    IF r.raised # NoRaise THEN r
    ELSE Ok(onSettled(disposeResolvers(LifetimeDispose(r.w, r.ret), d), d), NoHandle)

\* The error branch of the call taken for a settlement like the value branch.
SettleUnwrap_Settling(c, d, fn) ==
    IF c.raised # NoRaise THEN Raise(c.w, c.raised)
    ELSE IF c.ret.error # NoHandle THEN Settled(Ok(c.w, c.ret.error), d, fn)
    ELSE Settled(unwrapResult(c.w, c.ret), d, fn)

\* owner.unwrapResult(c), c being the outcome of owner.callFunction
SettleUnwrap(c, d, fn) ==
    IF c.raised # NoRaise THEN Raise(c.w, c.raised)
    ELSE Settled(unwrapResult(c.w, c.ret), d, fn)

\* owner.callFunction(fn, owner.undefined, value || owner.undefined), u being
\* the outcome of the first read of owner.undefined
SettleCall(u, d, fn, value, exc) ==
    SettleUnwrap(callFunction(u.w, fn, u.ret, <<IF value # NoHandle THEN value ELSE u.ret>>, exc),
                 d, fn)

\* resolve and reject past their guard: call the callback fn with the value
\* (or undefined), unwrap and dispose the result, dispose both callbacks, fire
\* the settled signal.
SettleWith(w, d, fn, value, exc) == SettleCall(getUndefined(w), d, fn, value, exc)

\* resolve without its guard.
resolve_Unguarded(w, d, value, exc) ==
    SettleWith(w, d, w.deferreds[d].resolveHandle, value, exc)

\* resolve(value?)
resolve(w, d, value, exc) ==
    IF ~Alive(w, w.deferreds[d].resolveHandle) THEN Ok(w, NoHandle)
    ELSE SettleWith(w, d, w.deferreds[d].resolveHandle, value, exc)

\* reject(value?)
reject(w, d, value, exc) ==
    IF ~Alive(w, w.deferreds[d].rejectHandle) THEN Ok(w, NoHandle)
    ELSE SettleWith(w, d, w.deferreds[d].rejectHandle, value, exc)

\* alive looking at the promise handle alone.
DeferredAlive_PromiseOnly(w, d) == Alive(w, w.deferreds[d].handle)

\* get alive()
DeferredAlive(w, d) ==
    Alive(w, w.deferreds[d].handle) \/ Alive(w, w.deferreds[d].resolveHandle)
        \/ Alive(w, w.deferreds[d].rejectHandle)

\* dispose() leaving the promise handle alone.
disposeDeferred_ResolversOnly(w, d) == Ok(disposeResolvers(w, d), NoHandle)

\* dispose()
disposeDeferred(w, d) ==
    Ok(disposeResolvers(DisposeIfAlive(w, w.deferreds[d].handle), d), NoHandle)

\* ------------------------------------------------------- callback bridge
\* Scope.manage(lifetime)
ScopeManage(w, h) == [w EXCEPT !.scope = Append(@, h)]

\* Every entry of ms still alive is disposed, in reverse registration order.
RECURSIVE DisposeAll(_, _)
DisposeAll(w, ms) ==
    IF ms = <<>> THEN w
    ELSE DisposeAll(DisposeIfAlive(w, ms[Len(ms)]), SubSeq(ms, 1, Len(ms) - 1))

\* Scope.dispose()
ScopeDispose(w) == [DisposeAll(Ffi(w, "Scope.dispose", 0), w.scope) EXCEPT !.scope = <<>>]

\* The end of Lifetime.consume(fn): the handle is disposed, the pointer the
\* primitive returned is the result.
Consumed(w, h) == Ok(LifetimeDispose(w, h), LastPtr(w))

\* Lifetime.consume(fn) around one primitive `name` that reads handle.value and
\* returns a pointer: the handle is disposed whether or not the read raises.
ConsumeInto(w, h, name, holder, exc) ==
    IF ~Alive(w, h) THEN Raise(w, "UseAfterFree")
    ELSE Consumed(NewPtr(Ffi(w, name, w.handles[h].ptr), name, 0, Ctx, holder, exc), h)

\* .consume(charHandle => QTS_NewString(this.ctx.value, charHandle.value)), w
\* holding the encoded string
NewStringConsuming(w) ==
    IF ~CtxAlive(w) THEN Raise(BufferDispose(w), "UseAfterFree")
    ELSE OkLastPtr(BufferDispose(NewPtr(Ffi(w, "QTS_NewString", 0), "QTS_NewString", 0, Ctx,
                                        "host", FALSE)))

\* heapValueHandle(ptr), c being the outcome of the primitive that returns ptr
Wrapped(c) == IF c.raised # NoRaise THEN c ELSE OkLastHandle(heapValueHandle(c.w, c.ret))

\* newString(str)
newString(w) == Wrapped(NewStringConsuming(newHeapCharPointer(w)))

\* newNumber(num)
newNumber(w) ==
    IF ~CtxAlive(w) THEN Raise(w, "UseAfterFree")
    ELSE OkLastHandle(WrapNew(Ffi(w, "QTS_NewFloat64", 0), "QTS_NewFloat64"))

\* A property key: a string, a number, or a handle (h).
StringKey == [kind |-> "string", h |-> NoHandle]
NumberKey == [kind |-> "number", h |-> NoHandle]
HandleKey(h) == [kind |-> "handle", h |-> h]

\* borrowPropertyKey(key): a new value for a number or a string, a static
\* handle over the pointer of a key that is a handle.
borrowPropertyKey(w, key) ==
    CASE key.kind = "number" -> newNumber(w)
      [] key.kind = "string" -> newString(w)
      [] OTHER -> IF ~Alive(w, key.h) THEN Raise(w, "UseAfterFree")
                  ELSE OkLastHandle(NewHandle(w, "static", w.handles[key.h].ptr, Ctx))

\* borrowPropertyKey(key).consume(quickjsKey => QTS_SetProp(...)), k being the
\* outcome of borrowPropertyKey.
SetPropWithKey(k, handle, value) ==
    IF k.raised # NoRaise THEN k
    ELSE IF ~CtxAlive(k.w) \/ ~Alive(k.w, handle) \/ ~Alive(k.w, value)
    THEN Raise(LifetimeDispose(k.w, k.ret), "UseAfterFree")
    ELSE Ok(LifetimeDispose(Ffi(k.w, "QTS_SetProp", k.w.handles[handle].ptr), k.ret), NoHandle)

\* setProp(handle, key, value)
setProp(w, handle, key, value) ==
    IF ~assertOwned(w, handle) THEN Raise(w, "NotOwned")
    ELSE SetPropWithKey(borrowPropertyKey(w, key), handle, value)

\* handle.consume(...): p is the outcome of the consumer, h the consumed handle.
ConsumeAfter(p, h) == [p EXCEPT !.w = LifetimeDispose(p.w, h)]

\* .consume(handle => this.setProp(errorHandle, key, handle)), v being the
\* outcome of newString(text)
SetPropConsuming(v, errorHandle) ==
    IF v.raised # NoRaise THEN v
    ELSE ConsumeAfter(setProp(v.w, errorHandle, StringKey, v.ret), v.ret)

\* newString(text).consume(handle => this.setProp(errorHandle, key, handle))
SetStringProp(w, errorHandle) == SetPropConsuming(newString(w), errorHandle)

\* What a host function threw, as errorToHandle sees it: a handle, a host Error
\* (name and message defined), another primitive (neither defined), or null /
\* undefined (reading a property of it raises TypeError).
ThrownSort(raised) ==
    IF raised \in {"Handle", "Primitive", "Nullish"} THEN raised ELSE "Error"

\* errorToHandle after error.message was set (m): return errorHandle.
ErrorWithMessage(m, errorHandle) ==
    IF m.raised # NoRaise THEN Raise(m.w, m.raised) ELSE Ok(m.w, errorHandle)

\* errorToHandle after error.name was set (n): set error.message.
ErrorWithName(n, errorHandle) ==
    IF n.raised # NoRaise THEN Raise(n.w, n.raised)
    ELSE ErrorWithMessage(SetStringProp(n.w, errorHandle), errorHandle)

\* errorToHandle after the foreign error object was made (e): the reads of
\* error.name and error.message and what follows them.
ErrorFilled(e, sort) ==
    IF sort = "Nullish" THEN Raise(e.w, "TypeError")
    ELSE IF sort = "Primitive" THEN e
    ELSE ErrorWithName(SetStringProp(e.w, e.ret), e.ret)

\* errorToHandle(error)
errorToHandle(w, sort, h) ==
    IF sort = "Handle" THEN Ok(w, h)
    ELSE ErrorFilled(OkLastHandle(WrapNew(Ffi(w, "QTS_NewError", 0), "QTS_NewError")), sort)

\* QTS_Throw(ctx, errorHandle.value) with the handle left as it is.
ThrowConsuming_Kept(e) ==
    IF e.raised # NoRaise THEN e
    ELSE IF ~Alive(e.w, e.ret) THEN Raise(e.w, "UseAfterFree")
    ELSE OkLastPtr(NewPtr(Ffi(e.w, "QTS_Throw", e.w.handles[e.ret].ptr), "QTS_Throw", 0, Ctx,
                          "runtime", TRUE))

\* .consume(errorHandle => QTS_Throw(ctx, errorHandle.value)), e being the
\* outcome of errorToHandle
ThrowConsuming(e) ==
    IF e.raised # NoRaise THEN e
    ELSE ConsumeInto(e.w, e.ret, "QTS_Throw", "runtime", TRUE)

\* .catch(error => this.errorToHandle(error).consume(h => QTS_Throw(ctx, h.value)))
CatchThrown(w, sort, h) == ThrowConsuming(errorToHandle(w, sort, h))

\* throw(error): error is a host Error or a handle.
throw(w, sort, h) == ThrowConsuming(errorToHandle(w, sort, h))

\* What a host function implementation can do when invoked.  k: what it does;
\* d: the deferred promise it uses.
Behaviours ==
    {[k |-> k, d |-> 0] :
        k \in {"void", "arg", "new", "value", "error", "throwError", "throwPrimitive",
               "throwNullish", "throwHandle"}}
    \cup {[k |-> k, d |-> d] : k \in {"deferred", "resolveDeferred"}, d \in 1..Len(deferreds)}

\* What an implementation can do with the handles it was passed: keep a
\* duplicate of one, or dispose them.
Keeping == {[k |-> k, d |-> 0] : k \in {"dupArg", "disposeArgs"}}

\* The failures of an implementation: it throws a host Error or a handle it
\* made, or returns {error} with a handle it made, the handle of its argument
\* or vm.undefined.
Throwing ==
    {[k |-> k, d |-> 0] : k \in {"error", "throwError", "throwHandle", "errorArg", "errorStatic"}}

\* The outcome of an implementation: it returned (tag: "nothing", "handle",
\* "value", "error") or threw (raised: the sort of the thrown value).
ImplReturn(w, tag, h) == [w |-> w, raised |-> NoRaise, tag |-> tag, h |-> h]
ImplThrow(w, sort, h) == [w |-> w, raised |-> sort, tag |-> "none", h |-> h]

\* An implementation that made a new object (o) and returns or throws it.
ImplWithNew(o, k) ==
    IF k = "throwHandle" THEN ImplThrow(o.w, "Handle", o.ret)
    ELSE ImplReturn(o.w, IF k = "new" THEN "handle" ELSE k, o.ret)

\* An implementation that called deferred.resolve() (r) and returns deferred.handle.
ImplResolved(r, d) ==
    IF r.raised # NoRaise THEN ImplThrow(r.w, "Error", NoHandle)
    ELSE ImplReturn([r.w EXCEPT !.deferreds[d].invoked = TRUE], "handle",
                    r.w.deferreds[d].handle)

\* An implementation that kept a dup() of a handle it was passed (r: the
\* outcome of dup()) and returns nothing.
ImplKept(r) ==
    IF r.raised # NoRaise THEN ImplThrow(r.w, "Error", NoHandle)
    ELSE ImplReturn(r.w, "nothing", NoHandle)

\* The functions resolvePromise registers: value => resolve({value: value &&
\* value.dup()}), and the same with error; r is the outcome of dup(), c the
\* host promise, which only the first call of its resolve settles.
HostSettled(r, c, tag) ==
    IF r.raised # NoRaise THEN ImplThrow(r.w, "Error", NoHandle)
    ELSE ImplReturn(IF r.w.conversions[c].tag = "none"
                    THEN [r.w EXCEPT !.conversions[c].tag = tag, !.conversions[c].h = r.ret]
                    ELSE r.w, "nothing", NoHandle)

\* value => resolve({ value }), the handle passed on as it is.
HostResolved_Borrowed(w, value, c, tag) == HostSettled(Ok(w, value), c, tag)

\* value => resolve({ value: value && value.dup() })
HostResolved(w, value, c, tag) == HostSettled(LifetimeDup(w, value), c, tag)

\* The body of an implementation behaving as b.
ImplBody(w, b, thisHandle, argHandles) ==
    CASE b.k = "void" -> ImplReturn(w, "nothing", NoHandle)
      [] b.k = "dupArg" -> ImplKept(LifetimeDup(w, IF argHandles = <<>> THEN thisHandle
                                                  ELSE argHandles[1]))
      [] b.k = "disposeArgs" -> ImplReturn(DisposeAll(w, <<thisHandle>> \o argHandles),
                                           "nothing", NoHandle)
      [] b.k = "arg" -> ImplReturn(w, "handle", IF argHandles = <<>> THEN thisHandle
                                               ELSE argHandles[1])
      [] b.k \in {"new", "value", "error", "throwHandle"} -> ImplWithNew(newObject(w, Ctx), b.k)
      [] b.k = "errorArg" -> ImplReturn(w, "error", argHandles[1])
      [] b.k = "errorStatic" -> ImplReturn(getUndefined(w).w, "error", getUndefined(w).ret)
      [] b.k = "throwError" -> ImplThrow(w, "Error", NoHandle)
      [] b.k = "throwPrimitive" -> ImplThrow(w, "Primitive", NoHandle)
      [] b.k = "throwNullish" -> ImplThrow(w, "Nullish", NoHandle)
      [] b.k = "deferred" -> ImplReturn(w, "handle", w.deferreds[b.d].handle)
      [] b.k = "resolveDeferred" -> ImplResolved(resolve(w, b.d, NoHandle, FALSE), b.d)
      [] b.k = "settleValue" -> HostResolved(w, argHandles[1], b.d, "value")
      [] b.k = "settleError" -> HostResolved(w, argHandles[1], b.d, "error")

\* fn.apply(thisHandle, argHandles): the implementation returns nothing, a
\* handle, {value}, {error}, or throws.
Applied(w) == [Ffi(w, "fn.apply", 0) EXCEPT !.implCalls = @ + 1]
Impl(w, b, thisHandle, argHandles) == ImplBody(Applied(w), b, thisHandle, argHandles)

\* QTS_DupValuePointer(ctx, handle.value) returning the raw value as it is.
DupForRuntime_Raw(w, h) ==
    IF ~Alive(w, h) THEN Raise(w, "UseAfterFree")
    ELSE Ok(w, w.handles[h].ptr)

\* return this.ffi.QTS_DupValuePointer(this.ctx.value, handle.value)
DupForRuntime(w, h) ==
    IF ~Alive(w, h) THEN Raise(w, "UseAfterFree")
    ELSE OkLastPtr(DupValuePointer(w, w.handles[h].ptr, "runtime"))

\* The .then handler forgetting to hand the result to the call scope.
ThenResult_Unmanaged(w, tag, h) ==
    IF tag = "nothing" THEN Ok(w, 0)
    ELSE IF tag = "error" THEN [w |-> w, raised |-> "Handle", ret |-> h]
    ELSE DupForRuntime(w, h)

\* .then(result => ...): {error} is thrown; a handle (or {value}) is managed by
\* the call scope and its raw value duplicated for the foreign runtime;
\* nothing returns 0.
ThenResult(w, tag, h) ==
    IF tag = "nothing" THEN Ok(w, 0)
    ELSE IF tag = "error" THEN [w |-> w, raised |-> "Handle", ret |-> h]
    ELSE DupForRuntime(ScopeManage(w, h), h)

\* What the implementation did, noted for the record of the operation.
ImplNoted(i) ==
    [i.w EXCEPT !.impl = [fn |-> i.w.impl.fn, tag |-> i.tag, h |-> i.h, raised |-> i.raised,
                          alive |-> i.h # NoHandle /\ Alive(i.w, i.h)]]

\* newPromiseLike(() => fn.apply(...)).then(...), i being the outcome of fn.apply:
\* a raise skips the .then handler.
Then(i) ==
    IF i.raised # NoRaise THEN [w |-> ImplNoted(i), raised |-> i.raised, ret |-> i.h]
    ELSE ThenResult(ImplNoted(i), i.tag, i.h)

\* .catch(...), t being the outcome of the chain before it.
Catch(t) ==
    IF t.raised # NoRaise THEN CatchThrown(t.w, ThrownSort(t.raised), t.ret) ELSE t

\* The this-value and arguments wrapped as owned handles.
ManageWeak_Owned(w, p) == ScopeManage(NewHandle(w, "owned", p, Ctx), Len(w.handles) + 1)

\* scope.manage(new WeakLifetime(ptr, copyJSValue, freeJSValue, this))
ManageWeak(w, p) == ScopeManage(NewHandle(w, "weak", p, Ctx), Len(w.handles) + 1)

\* The loop over argv (at most one argument is passed).
ManageArgs(w, argv) ==
    IF argv = <<>> THEN w
    ELSE ManageWeak(Ffi(w, "QTS_ArgvGetJSValueConstPointer", argv[1]), argv[1])

\* The block run in the call scope: wrap this and the arguments as borrowed
\* handles, invoke the implementation, adapt its result, catch what was thrown.
CallBlock(w, this_ptr, argv, b) ==
    Catch(Then(Impl(ManageArgs(ManageWeak(w, this_ptr), argv), b, Len(w.handles) + 1,
                    IF argv = <<>> THEN <<>> ELSE <<Len(w.handles) + 2>>)))

\* Scope.withScopeMaybeAsync(block) with a synchronous outcome: the scope is
\* disposed on return and on raise.
WithCallScope(r) == [r EXCEPT !.w = ScopeDispose(r.w)]

\* Scope.withScopeMaybeAsync disposing its scope as soon as the block returned
\* a pending outcome.
Suspend_Disposed(w, thisHandle, argHandles) ==
    [ScopeDispose(w) EXCEPT !.pending = [on |-> TRUE, fn |-> w.impl.fn, scope |-> w.scope,
                                         thisHandle |-> thisHandle, argHandles |-> argHandles]]

\* Scope.withScopeMaybeAsync(block) with a pending outcome: the scope is kept,
\* with what it manages, until the outcome settles.
Suspend(w, thisHandle, argHandles) ==
    [w EXCEPT !.pending = [on |-> TRUE, fn |-> w.impl.fn, scope |-> w.scope,
                           thisHandle |-> thisHandle, argHandles |-> argHandles],
              !.scope = <<>>]

\* The block run in withScope: the scope is disposed as soon as the block
\* returned, its outcome still pending.
PendingBlock_WithScope(w, this_ptr, argv) ==
    Ok(Suspend_Disposed(Applied(ManageArgs(ManageWeak(w, this_ptr), argv)), Len(w.handles) + 1,
                        IF argv = <<>> THEN <<>> ELSE <<Len(w.handles) + 2>>), 0)

\* The block up to fn.apply returning a pending outcome.
PendingBlock(w, this_ptr, argv) ==
    Ok(Suspend(Applied(ManageArgs(ManageWeak(w, this_ptr), argv)), Len(w.handles) + 1,
               IF argv = <<>> THEN <<>> ELSE <<Len(w.handles) + 2>>), 0)

\* cToHostCallbackFunction reaching an implementation whose outcome is pending.
cToHostCallbackFunctionPending(w, ctx, this_ptr, argv, fn_id) ==
    IF ctx # Ctx THEN Raise(w, "MismatchedCtx")
    ELSE IF fn_id \notin DOMAIN w.fnMap THEN Raise(w, "NoCallback")
    ELSE PendingBlock([w EXCEPT !.impl.fn = w.fnMap[fn_id]], this_ptr, argv)

\* The world in which the pending outcome of an inbound call settles: the
\* call's scope is the current one again.
Resumed(w) ==
    [w EXCEPT !.scope = w.pending.scope, !.impl.fn = w.pending.fn, !.pending = NoPending]

\* The pending outcome settles as b: the rest of the chain runs, then the
\* scope is disposed.
settlePending(w, b) ==
    WithCallScope(Catch(Then(ImplBody(Resumed(w), b, w.pending.thisHandle,
                                      w.pending.argHandles))))

\* cToHostCallbackFunction running the block outside any scope helper.
cToHostCallbackFunction_NoScope(w, ctx, this_ptr, argv, fn_id, b) ==
    IF ctx # Ctx THEN Raise(w, "MismatchedCtx")
    ELSE IF fn_id \notin DOMAIN w.fnMap THEN Raise(w, "NoCallback")
    ELSE CallBlock([w EXCEPT !.impl.fn = w.fnMap[fn_id]], this_ptr, argv, b)

\* cToHostCallbackFunction without the check of the context identity.
cToHostCallbackFunction_AnyCtx(w, ctx, this_ptr, argv, fn_id, b) ==
    IF fn_id \notin DOMAIN w.fnMap THEN Raise(w, "NoCallback")
    ELSE WithCallScope(CallBlock([w EXCEPT !.impl.fn = w.fnMap[fn_id]], this_ptr, argv, b))

\* cToHostCallbackFunction(ctx, this_ptr, argc, argv, fn_id)
cToHostCallbackFunction(w, ctx, this_ptr, argv, fn_id, b) ==
    IF ctx # Ctx THEN Raise(w, "MismatchedCtx")
    ELSE IF fn_id \notin DOMAIN w.fnMap THEN Raise(w, "NoCallback")
    ELSE WithCallScope(CallBlock([w EXCEPT !.impl.fn = w.fnMap[fn_id]], this_ptr, argv, b))

\* const fnId = this.fnNextId + 1; this.fnMap.set(fnId, fn): the counter is
\* left where it was.
Register_Reusing(w, fn) ==
    [w EXCEPT !.fnMap = [i \in DOMAIN w.fnMap \cup {w.fnNextId + 1} |->
                           IF i = w.fnNextId + 1 THEN fn ELSE w.fnMap[i]]]

\* const fnId = ++this.fnNextId; this.fnMap = new Map([[fnId, fn]])
Register_Replacing(w, fn) ==
    [w EXCEPT !.fnNextId = w.fnNextId + 1,
              !.fnMap = [i \in {w.fnNextId + 1} |-> fn]]

\* const fnId = ++this.fnNextId; this.fnMap.set(fnId, fn)
Register(w, fn) ==
    [w EXCEPT !.fnNextId = w.fnNextId + 1,
              !.fnMap = [i \in DOMAIN w.fnMap \cup {w.fnNextId + 1} |->
                           IF i = w.fnNextId + 1 THEN fn ELSE w.fnMap[i]]]

\* newFunction(name, fn)
newFunction(w, fn) ==
    OkLastHandle(WrapNew(Ffi(Register(w, fn), "QTS_NewFunction", w.fnNextId + 1),
                         "QTS_NewFunction"))

\* ------------------------------------------------- a Scope of the host
\* scope.manage(lifetime), r being the outcome of the expression that made
\* the lifetime: manage fails once the scope is disposed.
hostManage(r) ==
    IF r.raised # NoRaise THEN r
    ELSE IF ~r.w.hostScope.alive THEN Raise(r.w, "UseAfterFree")
    ELSE Ok([r.w EXCEPT !.hostScope.entries = Append(@, r.ret)], r.ret)

\* The lifetime the host keeps to itself.
Unmanaged(r) == r

\* scope.dispose(): idempotent; every entry still alive is disposed, in
\* reverse registration order.
hostScopeDispose(w) ==
    IF ~w.hostScope.alive THEN Ok(w, NoHandle)
    ELSE Ok([DisposeAll(Ffi(w, "Scope.dispose", 0), w.hostScope.entries)
                EXCEPT !.hostScope.alive = FALSE], NoHandle)

\* ---------------------------------------------- QuickJSContextMemory.scope
\* manage(lifetime): fails once the scope is disposed.
memoryManage(w) ==
    IF ~w.memory.alive THEN Raise(w, "UseAfterFree")
    ELSE Ok([w EXCEPT !.memory.entries = Append(@, [name |-> "managed", alive |-> TRUE, h |-> NoHandle])],
            NoHandle)

\* lifetime.dispose() of entry i of the scope; the disposals of the entries
\* in F fail, and leave their entry as it was.
EntryDispose(w, i, F) ==
    IF i \in F THEN Ffi(w, "dispose.failed", i)
    ELSE [(IF w.memory.entries[i].h = NoHandle THEN Ffi(w, "dispose", i)
           ELSE LifetimeDispose(Ffi(w, "dispose", i), w.memory.entries[i].h))
            EXCEPT !.memory.entries[i].alive = FALSE]

\* The entries from i down to the first, each still alive one disposed.
RECURSIVE DisposeEntries(_, _, _)
DisposeEntries(w, i, F) ==
    IF i = 0 THEN w
    ELSE DisposeEntries(IF w.memory.entries[i].alive THEN EntryDispose(w, i, F) ELSE w,
                        i - 1, F)

\* The entries from i down, stopping at the first disposal that fails.
RECURSIVE DisposeEntries_UntilFailure(_, _, _)
DisposeEntries_UntilFailure(w, i, F) ==
    IF i = 0 THEN w
    ELSE IF w.memory.entries[i].alive /\ i \in F THEN EntryDispose(w, i, F)
    ELSE DisposeEntries_UntilFailure(IF w.memory.entries[i].alive THEN EntryDispose(w, i, F)
                                     ELSE w, i - 1, F)

\* A disposal failed during the operation.
Failed(w) == \E k \in 1..Len(w.ffi) : w.ffi[k][1] = "dispose.failed"

\* The end of Scope.dispose(): the scope is dead, the failures are raised.
Aggregate(w) ==
    IF Failed(w) THEN Raise([w EXCEPT !.memory.alive = FALSE], "DisposeFailed")
    ELSE Ok([w EXCEPT !.memory.alive = FALSE], NoHandle)

\* dispose() running over the entries itself, with nothing catching a failure.
memoryDispose_UntilFailure(w, F) ==
    IF ~w.memory.alive THEN Ok(w, NoHandle)
    ELSE Aggregate(DisposeEntries_UntilFailure(w, Len(w.memory.entries), F))

\* dispose() { return this.scope.dispose() }: idempotent, entries in reverse
\* registration order, every entry attempted, failures raised at the end.
memoryDispose(w, F) ==
    IF ~w.memory.alive THEN Ok(w, NoHandle)
    ELSE Aggregate(DisposeEntries(w, Len(w.memory.entries), F))

\* The handle a constructor just returned, left out of the scope.
ManageNew_Unmanaged(r) == r.w

\* scope.manage(...) of the handle a constructor (r) just returned
ManageNew(r) == ScopeManage(r.w, r.ret)

\* const value = descriptor.value || this.undefined
WithValue(w, value) == IF value = NoHandle THEN getUndefined(w).w ELSE w

\* descriptor.get ? scope.manage(this.newFunction(name, get)) : this.undefined
WithAccessor(w, present, fn) ==
    IF present THEN ManageNew(newFunction(w, fn)) ELSE getUndefined(w).w

\* this.ffi.QTS_DefineProp(ctx, handle.value, quickJSKey.value, value.value, ...):
\* reading .value of a disposed handle raises.
DefinePropCall(w, handle, value) ==
    IF ~Alive(w, handle) \/ (value # NoHandle /\ ~Alive(w, value)) THEN Raise(w, "UseAfterFree")
    ELSE Ok(Ffi(w, "QTS_DefineProp", w.handles[handle].ptr), NoHandle)

\* The block of defineProp with a number key: the key, then the getter and
\* the setter when the descriptor has them, are managed by the scope.
DefinePropBlock(w, handle, desc) ==
    DefinePropCall(WithAccessor(WithAccessor(WithValue(ManageNew(newNumber(w)), desc.value),
                                             desc.get, "f"), desc.set, "g"),
                   handle, desc.value)

\* Scope.withScope(block), r being the outcome of the block: the scope is
\* disposed on return and on raise, the outcome returned or raised again.
withScope(r) == [r EXCEPT !.w = ScopeDispose(r.w)]

\* defineProp(handle, key, descriptor)
defineProp(w, handle, desc) ==
    IF ~assertOwned(w, handle) THEN Raise(w, "NotOwned")
    ELSE withScope(DefinePropBlock(w, handle, desc))

\* -------------------------------------------- promises of the runtime
\* The foreign value a handle denotes.
ObjectOf(w, h) == w.ptrs[w.handles[h].ptr].obj

\* The id of the host function a function handle made by newFunction stands
\* for: ids are handed out in the order of the QTS_NewFunction calls.
FnIdOf(w, h) ==
    Cardinality({p \in 1..w.handles[h].ptr : w.ptrs[p].by = "QTS_NewFunction"})

\* A promise is settled once; a settlement queues one job per reaction
\* registered on the promise, to call its fulfilment or rejection function
\* with the settled value.
IsSettled(w, o) == \E i \in 1..Len(w.vm.settled) : w.vm.settled[i].obj = o
SettlementOf(w, o) ==
    w.vm.settled[CHOOSE i \in 1..Len(w.vm.settled) : w.vm.settled[i].obj = o]
JobFor(rc, st) ==
    [fn |-> IF st.state = "fulfilled" THEN rc.onFulfilled ELSE rc.onRejected,
     value |-> st.value]
ReactionsOn(w, o) == LET On(rc) == rc.obj = o IN SelectSeq(w.vm.reactions, On)
JobsFor(rcs, st) == [i \in 1..Len(rcs) |-> JobFor(rcs[i], st)]

\* The runtime settles promise o, unless it is settled.
RuntimeSettle(w, o, state, value) ==
    IF IsSettled(w, o) THEN w
    ELSE [w EXCEPT !.vm.settled = Append(@, [obj |-> o, state |-> state, value |-> value]),
                   !.vm.jobs = @ \o JobsFor(ReactionsOn(w, o),
                                            [state |-> state, value |-> value])]

\* promise.then(onF, onR) in the runtime: a reaction, and a job at once when
\* the promise is settled.
RuntimeThen(w, o, onF, onR) ==
    IF IsSettled(w, o)
    THEN [w EXCEPT !.vm.jobs = Append(@, JobFor([onFulfilled |-> onF, onRejected |-> onR],
                                                SettlementOf(w, o))),
                   !.vm.reactions = Append(@, [obj |-> o, onFulfilled |-> onF,
                                               onRejected |-> onR])]
    ELSE [w EXCEPT !.vm.reactions = Append(@, [obj |-> o, onFulfilled |-> onF,
                                               onRejected |-> onR])]

\* The values of the runtime that are promises: those of the deferred
\* promises, and those Promise.resolve made.
IsPromise(w, o) ==
    \/ IsSettled(w, o)
    \/ \E d \in 1..Len(w.deferreds) : ObjectOf(w, w.deferreds[d].handle) = o

\* Promise.resolve(x) in the runtime, c being the outcome of the call: the
\* result is x itself when x is a promise, otherwise a new promise fulfilled
\* with x.
PromiseResolved(c, x) ==
    IF c.raised # NoRaise \/ c.ret.value = NoHandle THEN c
    ELSE IF IsPromise(c.w, ObjectOf(c.w, x))
    THEN [c EXCEPT !.w.ptrs[c.w.handles[c.ret.value].ptr].obj = ObjectOf(c.w, x)]
    ELSE [c EXCEPT !.w = RuntimeSettle(c.w, ObjectOf(c.w, c.ret.value), "fulfilled",
                                       ObjectOf(c.w, x))]

\* ------------------------------------------------------- resolvePromise
\* this._global = new StaticLifetime(ptr, this.owner)
CacheGlobal(w) == Ok([w EXCEPT !.cGlobal = LastHandle(w)], LastHandle(w))

\* this.memory.manage(this.memory.heapValueHandle(ptr))
GlobalManaged(w) ==
    [w EXCEPT !.memory.entries = Append(@, [name |-> "global", alive |-> TRUE,
                                            h |-> LastHandle(w)])]

\* get global(): cached after the first access.
getGlobal(w) ==
    IF w.cGlobal # NoHandle THEN Ok(w, w.cGlobal)
    ELSE IF ~w.memory.entries[1].alive THEN Raise(w, "UseAfterFree")      \* this.ctx.value
    ELSE CacheGlobal(NewHandle(GlobalManaged(WrapNew(Ffi(w, "QTS_GetGlobalObject", 0),
                                                     "QTS_GetGlobalObject")),
                               "static", Len(w.ptrs) + 1, Ctx))

\* const result = this.memory.heapValueHandle(ptr), c being the outcome of
\* the consume around QTS_GetProp
GetPropResult(c) ==
    IF c.raised # NoRaise THEN c ELSE OkLastHandle(heapValueHandle(c.w, c.ret))

\* borrowPropertyKey(key).consume(quickJSKey => QTS_GetProp(ctx, handle.value,
\* quickJSKey.value)), k being the outcome of borrowPropertyKey
GetPropWithKey(k, handle) ==
    IF k.raised # NoRaise THEN k
    ELSE IF ~CtxAlive(k.w) \/ ~Alive(k.w, handle)
    THEN Raise(LifetimeDispose(k.w, k.ret), "UseAfterFree")
    ELSE GetPropResult(ConsumeInto(k.w, k.ret, "QTS_GetProp", "host", FALSE))

\* getProp(handle, key)
getProp(w, handle, key) ==
    IF ~assertOwned(w, handle) THEN Raise(w, "NotOwned")
    ELSE GetPropWithKey(borrowPropertyKey(w, key), handle)

\* return this.callFunction(vmPromiseResolve, vmPromise, promiseLikeHandle),
\* p being the outcome of getProp(vmPromise, 'resolve')
PromiseResolveCall(p, vmPromise, promiseLike, exc) ==
    IF p.raised # NoRaise THEN p
    ELSE PromiseResolved(callFunction(ScopeManage(p.w, p.ret), p.ret, vmPromise,
                                      <<promiseLike>>, exc), promiseLike)

\* p being the outcome of getProp(this.global, 'Promise')
PromiseResolveGet(p, promiseLike, exc) ==
    IF p.raised # NoRaise THEN p
    ELSE PromiseResolveCall(getProp(ScopeManage(p.w, p.ret), p.ret, StringKey), p.ret,
                            promiseLike, exc)

\* g being the outcome of this.global
GlobalProp(g) == getProp(g.w, g.ret, StringKey)

\* const vmResolveResult = Scope.withScope(scope => ...)
vmResolve(w, promiseLike, exc) ==
    withScope(PromiseResolveGet(GlobalProp(getGlobal(w)), promiseLike, exc))

\* A host promise resolvePromise returns: the ids of the functions that
\* settle it, the promise of the runtime it converts, and its outcome (tag:
\* "none" while pending, "value" or "error" with handle h, "rejected").
NewConversion(w, tag, h) ==
    [w EXCEPT !.conversions = Append(@, [resolveFn |-> 0, rejectFn |-> 0, obj |-> 0,
                                         tag |-> tag, h |-> h])]

\* The host promise whose executor registered the two functions made last.
OpenConversion(w, promiseHandle) ==
    [w EXCEPT !.conversions = Append(@, [resolveFn |-> w.fnNextId - 1,
                                         rejectFn |-> w.fnNextId,
                                         obj |-> ObjectOf(w, promiseHandle),
                                         tag |-> "none", h |-> NoHandle])]

\* resolveHandle and rejectHandle, each made by newFunction and managed.
WithResolvers(w) == ManageNew(newFunction(ManageNew(newFunction(w, "resolve")), "reject"))

\* .dispose() of the unwrapped result (u)
ThenTail(u) ==
    IF u.raised # NoRaise THEN u ELSE Ok(LifetimeDispose(u.w, u.ret), NoHandle)

\* this.unwrapResult(c), c being the outcome of callFunction
ThenUnwrap(c) ==
    IF c.raised # NoRaise THEN c ELSE ThenTail(unwrapResult(c.w, c.ret))

\* The call of then in the runtime, unless the call did not take place or threw.
ThenRegistered(c, o, onF, onR, exc) ==
    IF c.raised # NoRaise \/ exc THEN c
    ELSE [c EXCEPT !.w = RuntimeThen(c.w, o, onF, onR)]

\* callFunction(promiseThenHandle, promiseHandle, rejectHandle, resolveHandle)
ThenCall_Swapped(t, promiseHandle, resolveHandle, rejectHandle, exc) ==
    IF t.raised # NoRaise THEN t
    ELSE ThenUnwrap(ThenRegistered(
             callFunction(ScopeManage(t.w, t.ret), t.ret, promiseHandle,
                          <<rejectHandle, resolveHandle>>, exc),
             ObjectOf(t.w, promiseHandle), FnIdOf(t.w, rejectHandle),
             FnIdOf(t.w, resolveHandle), exc))

\* callFunction(promiseThenHandle, promiseHandle, resolveHandle, rejectHandle),
\* t being the outcome of getProp(promiseHandle, 'then')
ThenCall(t, promiseHandle, resolveHandle, rejectHandle, exc) ==
    IF t.raised # NoRaise THEN t
    ELSE ThenUnwrap(ThenRegistered(
             callFunction(ScopeManage(t.w, t.ret), t.ret, promiseHandle,
                          <<resolveHandle, rejectHandle>>, exc),
             ObjectOf(t.w, promiseHandle), FnIdOf(t.w, resolveHandle),
             FnIdOf(t.w, rejectHandle), exc))

\* const promiseHandle = scope.manage(vmResolveResult.value) and what follows
ThenGet(w, promiseHandle, resolveHandle, rejectHandle, exc) ==
    ThenCall(getProp(ScopeManage(w, promiseHandle), promiseHandle, StringKey), promiseHandle,
             resolveHandle, rejectHandle, exc)

\* The block of the executor.
ThenBlock(w, promiseHandle, exc) ==
    ThenGet(OpenConversion(WithResolvers(w), promiseHandle), promiseHandle,
            Len(w.handles) + 1, Len(w.handles) + 2, exc)

\* new Promise(executor): an executor that raises rejects the host promise.
Executor(r) ==
    IF r.raised = NoRaise THEN r
    ELSE Ok([r.w EXCEPT !.conversions[Len(r.w.conversions)].tag = "rejected"], NoHandle)

\* The rest of resolvePromise, v being the outcome of the first block.
Convert(v, exc) ==
    IF v.raised # NoRaise THEN v
    ELSE IF v.ret.error # NoHandle THEN Ok(NewConversion(v.w, "error", v.ret.error), NoHandle)
    ELSE Executor(withScope(ThenBlock(v.w, v.ret.value, exc)))

\* resolvePromise(promiseLikeHandle).  exc1, exc2: the call of Promise.resolve,
\* of then, threw.
resolvePromise(w, promiseLike, exc1, exc2) ==
    IF ~assertOwned(w, promiseLike) THEN Raise(w, "NotOwned")
    ELSE Convert(vmResolve(w, promiseLike, exc1), exc2)

\* ------------------------------------------------------------ the actions
Handles == 1..Len(handles)
Deferreds == 1..Len(deferreds)

\* resolveHandle and rejectHandle are private fields of the deferred promise.
Private(h) == \E d \in Deferreds : h \in {deferreds[d].resolveHandle, deferreds[d].rejectHandle}
Public == {h \in Handles : ~Private(h)}

\* One handle of each sort the host can pass: the first of every (kind, owner,
\* alive) class.  An operation reads nothing else of a handle but its pointer.
SameSort(h, g) ==
    /\ handles[h].kind = handles[g].kind
    /\ handles[h].owner = handles[g].owner
    /\ handles[h].alive = handles[g].alive
Sorts == {h \in Public : \A g \in Public : SameSort(h, g) => h <= g}

\* How many pointers the primitives of the set `bys` have handed out.
Made(w, bys) == Cardinality({p \in 1..Len(w.ptrs) : w.ptrs[p].by \in bys})

\* The conversions whose two functions were registered.
Open(w) == {c \in 1..Len(w.conversions) : w.conversions[c].resolveFn # 0}

\* The static handles borrowPropertyKey made over the pointers of keys.
Borrowed(w) ==
    {h \in 1..Len(w.handles) : /\ w.handles[h].kind = "static" /\ w.handles[h].owner = Ctx
                               /\ w.ptrs[w.handles[h].ptr].by # "QTS_GetGlobalObject"}

\* The run stays within the bounds.
Fits(w) ==
    /\ Len(w.deferreds) <= MaxPromises
    /\ Made(w, {"QTS_Call", "QTS_Eval"}) <= MaxCalls + 2 * Len(w.conversions)
    /\ Made(w, {"QTS_NewObject"}) <= MaxObjects
    /\ Made(w, {"this_ptr"}) <= MaxDispatch + (IF w.conversions = <<>> THEN 0 ELSE 1)
    /\ Made(w, {"QTS_NewFloat64"}) <= MaxDefines
    /\ Made(w, {"QTS_DupValuePointer"}) <= MaxDups
    /\ Len(w.memory.entries) <= MaxManaged + 1
    /\ Len(w.conversions) <= MaxConversions
    /\ Cardinality(Borrowed(w)) <= MaxBorrows
    /\ w.fnNextId <= MaxFns + 2 * Cardinality(Open(w))
    /\ Len(w.ptrs) <= MaxPtrs + ConversionPtrs * Len(w.conversions)

\* What is noted of an operation: its name, the deferred promise and handles
\* it was given, its outcome; for an inbound call also the context identity,
\* function id and what the host implementation did; for a registration the
\* implementations the host gave (fns); for getProp and setProp the kind of
\* the key.
Info(op, d, args, result) ==
    [op |-> op, d |-> d, args |-> args, result |-> result, ctx |-> Ctx, fnId |-> 0,
     fns |-> <<>>, key |-> "none"]

\* The operations whose return value (a pointer or a handle) is noted.
Accessors == {"undefined", "null", "true", "false", "global"}
Returning == {"dispatch", "unwrapResult", "settle"} \cup Accessors

\* Leave the world of a finished operation in the variables.
Commit(r, info) ==
    /\ Fits(r.w)
    /\ handles' = r.w.handles
    /\ ptrs' = r.w.ptrs
    /\ deferreds' = r.w.deferreds
    /\ cUndefined' = r.w.cUndefined
    /\ fnNextId' = r.w.fnNextId
    /\ fnMap' = r.w.fnMap
    /\ pending' = r.w.pending
    /\ memory' = r.w.memory
    /\ hostScope' = r.w.hostScope
    /\ cGlobal' = r.w.cGlobal
    /\ cNull' = r.w.cNull
    /\ cTrue' = r.w.cTrue
    /\ cFalse' = r.w.cFalse
    /\ vm' = r.w.vm
    /\ conversions' = r.w.conversions
    /\ last' = [op |-> info.op, d |-> info.d, args |-> info.args, result |-> info.result,
                ctx |-> info.ctx, fnId |-> info.fnId, fns |-> info.fns, key |-> info.key,
                impl |-> r.w.impl,
                raised |-> r.raised, ffi |-> r.w.ffi, heap |-> r.w.heap,
                implCalls |-> r.w.implCalls,
                ret |-> IF info.op \in Returning /\ r.raised = NoRaise THEN r.ret ELSE 0]

\* A resolve or reject call that returned marks the deferred as invoked.
Invoked(r, d) ==
    IF r.raised = NoRaise THEN [r EXCEPT !.w.deferreds[d].invoked = TRUE] ELSE r

\* A dispose call that returned marks the deferred as disposed.
Disposed(r, d) == [r EXCEPT !.w.deferreds[d].disposed = TRUE]

Init ==
    /\ handles = <<>>
    /\ ptrs = <<>>
    /\ deferreds = <<>>
    /\ cUndefined = NoHandle
    /\ fnNextId = 0
    /\ fnMap = <<>>
    /\ pending = NoPending
    /\ hostScope = [alive |-> TRUE, entries |-> <<>>]
    /\ cGlobal = NoHandle
    /\ cNull = NoHandle
    /\ cTrue = NoHandle
    /\ cFalse = NoHandle
    /\ vm = [settled |-> <<>>, reactions |-> <<>>, jobs |-> <<>>]
    /\ conversions = <<>>
    /\ memory = [alive |-> TRUE, entries |-> <<[name |-> "ctx", alive |-> TRUE, h |-> NoHandle]>>]
    /\ last = [op |-> "init", d |-> 0, args |-> <<>>, result |-> NoResult,
               ctx |-> Ctx, fnId |-> 0, fns |-> <<>>, key |-> "none", impl |-> NoImpl,
               raised |-> NoRaise, ffi |-> <<>>, heap |-> <<>>, implCalls |-> 0, ret |-> 0]

NewPromise ==
    /\ Commit(newPromise(World), Info("newPromise", Len(deferreds) + 1, <<>>, NoResult))

\* The values the host settles a deferred promise with: none, or a handle it
\* holds that is alive.
Values == {NoHandle} \cup {h \in Sorts : handles[h].alive}

\* The outcomes of the foreign call a resolve or reject makes, if it makes one.
Outcomes(fn) == IF handles[fn].alive THEN BOOLEAN ELSE {FALSE}

Resolve ==
    \E d \in Deferreds, v \in Values :
      \E exc \in Outcomes(deferreds[d].resolveHandle) :
        Commit(Invoked(resolve(World, d, v, exc), d), Info("resolve", d, <<v>>, NoResult))

Reject ==
    \E d \in Deferreds, v \in Values :
      \E exc \in Outcomes(deferreds[d].rejectHandle) :
        Commit(Invoked(reject(World, d, v, exc), d), Info("reject", d, <<v>>, NoResult))

DisposeDeferred ==
    \E d \in Deferreds :
        Commit(Disposed(disposeDeferred(World, d), d), Info("dispose", d, <<>>, NoResult))

\* handle.dispose() by the host on a handle it holds
HandleDispose ==
    \E h \in Public :
        Commit(Ok(LifetimeDispose(World, h), NoHandle), Info("handle.dispose", 0, <<h>>, NoResult))

NewObject ==
    \E c \in {Ctx, Other} :
        Commit(newObject(World, c), Info("newObject", 0, <<>>, NoResult))

\* Leave the world and the outcome (r) of a call that returns one.
CommitOutcome(r, op, args) ==
    Commit(r, Info(op, 0, args, IF r.raised = NoRaise THEN r.ret ELSE NoResult))

CallFunction ==
    \E f \in Sorts, t \in Sorts, a \in Sorts, exc \in BOOLEAN :
        CommitOutcome(callFunction(World, f, t, <<a>>, exc), "callFunction", <<f, t, a>>)

EvalCode ==
    \E exc \in BOOLEAN :
        CommitOutcome(evalCode(World, exc), "evalCode", <<>>)

\* unwrapResult on an outcome the host holds, made of one of its handles
UnwrapResult ==
    \E h \in Sorts, branch \in {"value", "error"} :
        Commit(unwrapResult(World, [NoResult EXCEPT ![branch] = h]),
               Info("unwrapResult", 0, <<h>>, [NoResult EXCEPT ![branch] = h]))

\* The descriptors the host passes: a value of the context or none, a getter,
\* a setter.
Descriptors ==
    [value : {v \in Values : v # NoHandle => handles[v].owner = Ctx}, get : BOOLEAN, set : BOOLEAN]

DefineProp ==
    \E h \in Sorts, desc \in Descriptors :
        Commit(defineProp(World, h, desc),
               Info("defineProp", 0, <<h>>, [NoResult EXCEPT !.value = desc.value]))

\* Objects of the host and the properties it defines on them.
NextDefine ==
    \/ NewObject
    \/ DefineProp
    \/ HandleDispose

SpecDefine == Init /\ [][NextDefine]_vars

MemoryManage == Commit(memoryManage(World), Info("manage", 0, <<>>, NoResult))

\* dispose() of the context memory; the disposals of the entries in F fail.
MemoryDispose ==
    \E F \in SUBSET (1..Len(memory.entries)) :
        Commit(memoryDispose(World, F), Info("memory.dispose", 0, <<>>, NoResult))

\* The host disposes a lifetime it handed to manage.
ManagedDispose ==
    \E i \in 2..Len(memory.entries), fails \in BOOLEAN :
        /\ memory.entries[i].alive
        /\ Commit(IF fails THEN Raise(EntryDispose(World, i, {i}), "DisposeFailed")
                  ELSE Ok(EntryDispose(World, i, {}), NoHandle),
                  Info("entry.dispose", 0, <<>>, NoResult))

\* The scope of the context memory and the lifetimes handed to it.
NextMemory ==
    \/ MemoryManage
    \/ MemoryDispose
    \/ ManagedDispose

SpecMemory == Init /\ [][NextMemory]_vars

\* scope.manage(newObject())
NewInScope ==
    Commit(hostManage(newObject(World, Ctx)), Info("newObject", 0, <<>>, NoResult))

\* One handle of each sort the host can duplicate: the first of those that
\* are alive or not and denote the same foreign value.
Originals ==
    {h \in Public : \A g \in Public :
        (handles[g].alive = handles[h].alive /\ ptrs[handles[g].ptr].obj = ptrs[handles[h].ptr].obj)
            => h <= g}

\* handle.dup(), the duplicate registered with the host's scope or kept.
HandleDup ==
    \E h \in Originals, managed \in BOOLEAN :
        Commit(IF managed THEN hostManage(LifetimeDup(World, h))
               ELSE Unmanaged(LifetimeDup(World, h)),
               Info("dup", 0, <<h>>, NoResult))

HostScopeDispose == Commit(hostScopeDispose(World), Info("scope.dispose", 0, <<>>, NoResult))

\* A Scope of the host, the handles it manages and their duplicates.
NextScope ==
    \/ NewInScope
    \/ HandleDup
    \/ HostScopeDispose

SpecScope == Init /\ [][NextScope]_vars

\* The values the host settles a converted promise with: none, or an object
\* it made.
PlainValues ==
    {v \in Values : v # NoHandle => ptrs[handles[v].ptr].by = "QTS_NewObject"}

\* What the runtime does when the capability function of deferred promise d
\* is called (r: the outcome of resolve or reject): the promise is settled
\* with the value passed, undefined when none was.
Capability(r, d, state, v, exc) ==
    IF exc \/ ~\E i \in 1..Len(r.w.ffi) : r.w.ffi[i][1] = "QTS_Call" THEN r
    ELSE [r EXCEPT !.w = RuntimeSettle(r.w, ObjectOf(r.w, r.w.deferreds[d].handle), state,
                                       ObjectOf(r.w, IF v = NoHandle THEN r.w.cUndefined
                                                     ELSE v))]

\* resolve(value) and reject(value) with the runtime's promise followed.
ResolveWith ==
    \E d \in Deferreds, v \in PlainValues :
        Commit(Capability(Invoked(resolve(World, d, v, FALSE), d), d, "fulfilled", v, FALSE),
               Info("resolve", d, <<v>>, NoResult))

RejectWith ==
    \E d \in Deferreds, v \in PlainValues :
        Commit(Capability(Invoked(reject(World, d, v, FALSE), d), d, "rejected", v, FALSE),
               Info("reject", d, <<v>>, NoResult))

\* resolvePromise(deferred.handle), once for a promise and with neither call
\* into the runtime raising.
ResolvePromise ==
    \E d \in Deferreds :
        /\ \A c \in 1..Len(conversions) :
              conversions[c].obj # ObjectOf(World, deferreds[d].handle)
        /\ Commit(resolvePromise(World, deferreds[d].handle, FALSE, FALSE),
                  Info("resolvePromise", d, <<deferreds[d].handle>>, NoResult))

\* The runtime calls the host function of a job: this is undefined, the one
\* argument is the settled value.
JobPtrs(w, value) ==
    NewPtr(NewPtr(w, "this_ptr", 0, Ctx, "caller", FALSE), "argv", value, Ctx, "caller", FALSE)

\* The function of a job is one resolvePromise registered.
JobBehaviour(w, fn_id) ==
    [k |-> IF \E c \in 1..Len(w.conversions) : w.conversions[c].resolveFn = fn_id
           THEN "settleValue" ELSE "settleError",
     d |-> CHOOSE c \in 1..Len(w.conversions) :
              fn_id \in {w.conversions[c].resolveFn, w.conversions[c].rejectFn}]

\* One pending job run by the runtime.
RunJob(w, job) ==
    cToHostCallbackFunction(JobPtrs(w, job.value), Ctx, Len(w.ptrs) + 1, <<Len(w.ptrs) + 2>>,
                            job.fn, JobBehaviour(w, job.fn))

\* executePendingJobs(): the runtime runs its pending jobs, first queued first.
RECURSIVE executePendingJobs(_)
executePendingJobs(w) ==
    IF w.vm.jobs = <<>> THEN Ok(w, 0)
    ELSE executePendingJobs([RunJob([w EXCEPT !.vm.jobs = Tail(@)], Head(w.vm.jobs)).w
                                EXCEPT !.scope = <<>>])

ExecutePendingJobs ==
    /\ ~pending.on /\ vm.jobs # <<>>
    /\ Commit(executePendingJobs(World), Info("executePendingJobs", 0, <<>>, NoResult))

\* resolvePromise(deferred.handle); the call of Promise.resolve or the call of
\* then may throw.
ConvertPromise ==
    \E d \in Deferreds, exc1 \in BOOLEAN, exc2 \in BOOLEAN :
      /\ \A c \in 1..Len(conversions) : conversions[c].obj # ObjectOf(World, deferreds[d].handle)
      /\ Commit(resolvePromise(World, deferreds[d].handle, exc1, exc2),
               Info("resolvePromise", d, <<deferreds[d].handle>>, NoResult))

\* The host functions a run registers.
Impls == {"f", "g"}

NewFunction ==
    \E fn \in Impls :
        Commit(newFunction(World, fn),
               [Info("newFunction", 0, <<>>, NoResult) EXCEPT !.fns = <<fn>>])

\* The accessors of a descriptor, as defineProp names them.
Getter(get) == IF get THEN <<"f">> ELSE <<>>
Setter(set) == IF set THEN <<"g">> ELSE <<>>

\* defineProp(promise, key, descriptor) on the first promise made, with a
\* getter, a setter or both
DefineAccessors ==
    \E get \in BOOLEAN, set \in BOOLEAN :
        /\ get \/ set
        /\ deferreds # <<>>
        /\ Commit(defineProp(World, deferreds[1].handle, [value |-> NoHandle, get |-> get, set |-> set]),
                  [Info("defineProp", 1, <<deferreds[1].handle>>, NoResult)
                      EXCEPT !.fns = Getter(get) \o Setter(set)])

\* handle.dispose() by the host on the handle of a function it made
FunctionDispose ==
    \E h \in Public :
        /\ handles[h].alive /\ ptrs[handles[h].ptr].by = "QTS_NewFunction"
        /\ Commit(Ok(LifetimeDispose(World, h), NoHandle),
                  Info("handle.dispose", 0, <<h>>, NoResult))

\* The conversion that registered fn_id, 0 when none did.
ConversionOf(w, fn_id) ==
    IF \E c \in Open(w) : fn_id \in {w.conversions[c].resolveFn, w.conversions[c].rejectFn}
    THEN CHOOSE c \in Open(w) : fn_id \in {w.conversions[c].resolveFn, w.conversions[c].rejectFn}
    ELSE 0

\* What the implementation registered under fn_id does: the two functions of
\* a conversion settle it, the functions of the host return nothing.
BehaviourOf(w, fn_id) ==
    IF ConversionOf(w, fn_id) # 0 THEN JobBehaviour(w, fn_id) ELSE [k |-> "void", d |-> 0]

\* The runtime calls a function value the context made, with a value of its
\* own: such a value stays callable whatever became of the handles to it.
HandlerCall ==
    /\ ~pending.on
    /\ \E fn_id \in DOMAIN fnMap :
            Commit(cToHostCallbackFunction(JobPtrs(World, 0), Ctx, Len(ptrs) + 1,
                                           <<Len(ptrs) + 2>>, fn_id, BehaviourOf(World, fn_id)),
                   [Info("handler", ConversionOf(World, fn_id), <<>>, NoResult)
                        EXCEPT !.fnId = fn_id])

\* Promises of the runtime converted, and the functions the conversions and
\* the host leave with the runtime: promises are made first, the host's own
\* functions before the conversions, and the runtime calls in once the
\* registrations and disposals are done.
NextConvert ==
    \/ (fnNextId = 0 /\ NewPromise)
    \/ (conversions = <<>> /\ NewFunction)
    \/ (Made(World, {"this_ptr"}) = 0 /\ ConvertPromise)
    \/ (Made(World, {"this_ptr"}) = 0 /\ FunctionDispose)
    \/ HandlerCall

SpecConvert == Init /\ [][NextConvert]_vars

\* The three operations that register host functions, in any order, and the
\* runtime calling in once they are done.
NextRegistry ==
    \/ (fnNextId = 0 /\ NewPromise)
    \/ (Made(World, {"this_ptr"}) = 0 /\ NewFunction)
    \/ (Made(World, {"this_ptr"}) = 0 /\ ConvertPromise)
    \/ (Made(World, {"this_ptr"}) = 0 /\ DefineAccessors)
    \/ HandlerCall

SpecRegistry == Init /\ [][NextRegistry]_vars

\* A deferred promise converted to a promise of the host.
NextPromise ==
    \/ (conversions = <<>> /\ vm.settled = <<>> /\ NewPromise)
    \/ (deferreds = <<>> /\ NewInScope)
    \/ ResolvePromise
    \/ ResolveWith
    \/ RejectWith
    \/ ExecutePendingJobs

SpecPromise == Init /\ [][NextPromise]_vars

\* newString(str)
NewString == Commit(newString(World), Info("newString", 0, <<>>, NoResult))

\* The keys the host passes: a string, a number, one of its handles.
Keys == {StringKey, NumberKey} \cup {HandleKey(h) : h \in Sorts}

\* getProp(handle, key)
GetProp ==
    \E h \in Sorts, key \in Keys :
        Commit(getProp(World, h, key),
               [Info("getProp", 0, <<h, key.h>>, NoResult) EXCEPT !.key = key.kind])

\* setProp(handle, key, handle)
SetProp ==
    \E h \in Sorts, key \in Keys :
        Commit(setProp(World, h, key, h),
               [Info("setProp", 0, <<h, key.h, h>>, NoResult) EXCEPT !.key = key.kind])

\* callFunction(func, func, arg)
CallWithArg ==
    \E f \in Sorts, a \in Sorts, exc \in BOOLEAN :
        CommitOutcome(callFunction(World, f, f, <<a>>, exc), "callFunction", <<f, f, a>>)

\* handle.dispose() by the host on a handle that is alive
AliveDispose ==
    \E h \in Sorts :
        /\ handles[h].alive
        /\ Commit(Ok(LifetimeDispose(World, h), NoHandle),
                  Info("handle.dispose", 0, <<h>>, NoResult))

\* The accessors of the context's constants and of its global object.
accessor(w, name) ==
    CASE name = "undefined" -> getUndefined(w)
      [] name = "null" -> getNull(w)
      [] name = "true" -> getTrue(w)
      [] name = "false" -> getFalse(w)
      [] name = "global" -> getGlobal(w)

Access ==
    \E name \in Accessors : Commit(accessor(World, name), Info(name, 0, <<>>, NoResult))

\* handle.dispose() by the host on a handle an accessor returned
StaticDispose ==
    \E h \in Handles :
        /\ handles[h].kind = "static"
        /\ Commit(Ok(LifetimeDispose(World, h), NoHandle),
                  Info("handle.dispose", 0, <<h>>, NoResult))

\* QuickJSContext.dispose() { this.memory.dispose() }
contextDispose(w) == memoryDispose(w, {})

ContextDispose == Commit(contextDispose(World), Info("context.dispose", 0, <<>>, NoResult))

\* The operations that make a transient buffer or a temporary key for one
\* call of a primitive.
NextBuffers ==
    \/ (Len(ptrs) < MaxBufferPtrs /\ NewString)
    \/ (Len(ptrs) < MaxBufferPtrs /\ EvalCode)
    \/ (Len(ptrs) < MaxBufferPtrs /\ CallWithArg)
    \/ (Len(ptrs) < MaxBufferPtrs /\ GetProp)
    \/ (Len(ptrs) < MaxBufferPtrs /\ SetProp)
    \/ AliveDispose
    \/ ContextDispose

SpecBuffers == Init /\ [][NextBuffers]_vars

\* The constants and the global object of a context, up to its disposal.
NextStatics ==
    \/ Access
    \/ StaticDispose
    \/ ContextDispose

SpecStatics == Init /\ [][NextStatics]_vars

\* The deferred promise and the handles the host holds.
Next ==
    \/ NewPromise
    \/ Resolve
    \/ Reject
    \/ DisposeDeferred
    \/ HandleDispose

Spec == Init /\ [][Next]_vars

\* The implementation an inbound call reaches can behave in any way; a call
\* that reaches none is told apart by its context and function id alone, and
\* an implementation that ignores its arguments is called with none.
Reaches(ctx, fn_id) == ctx = Ctx /\ fn_id \in DOMAIN fnMap
BehavioursAt(bs, ctx, fn_id) ==
    IF Reaches(ctx, fn_id) THEN bs ELSE {[k |-> "void", d |-> 0]}
ArgCounts(b) ==
    IF b.k \in {"arg", "dupArg", "disposeArgs"} THEN {0, 1}
    ELSE IF b.k = "errorArg" THEN {1} ELSE {0}

\* The foreign runtime calls into the host: it owns this_ptr and argv, which
\* the host sees when the call reaches an implementation.
CallerPtrs(w, ctx, fn_id, argc) ==
    IF ~Reaches(ctx, fn_id) THEN w
    ELSE IF argc = 0 THEN NewPtr(w, "this_ptr", 0, Ctx, "caller", FALSE)
    ELSE NewPtr(NewPtr(w, "this_ptr", 0, Ctx, "caller", FALSE), "argv", 0, Ctx, "caller", FALSE)

\* The result handle of an inbound call that was forwarded to the runtime
\* marks its deferred promise, when it is the handle of one.
Returned(r) ==
    IF r.raised = NoRaise /\ r.w.impl.tag \in {"handle", "value"} /\ r.w.impl.alive
    THEN [r EXCEPT !.w.deferreds =
            [d \in DOMAIN r.w.deferreds |->
                IF r.w.deferreds[d].handle = r.w.impl.h
                THEN [r.w.deferreds[d] EXCEPT !.returned = TRUE]
                ELSE r.w.deferreds[d]]]
    ELSE r

DispatchAs(bs) ==
    /\ ~pending.on
    /\ \E ctx \in {Ctx, Other}, fn_id \in 1..(fnNextId + 1) :
      \E b \in BehavioursAt(bs, ctx, fn_id) :
        \E argc \in ArgCounts(b) :
        Commit(Returned(cToHostCallbackFunction(CallerPtrs(World, ctx, fn_id, argc), ctx, Len(ptrs) + 1,
                                                IF argc = 0 THEN <<>> ELSE <<Len(ptrs) + 2>>,
                                                fn_id, b)),
               [Info("dispatch", b.d, <<>>, NoResult) EXCEPT !.ctx = ctx, !.fnId = fn_id])

Dispatch == DispatchAs(Behaviours)

\* An inbound call of an implementation that keeps or disposes what it was passed.
DispatchKeeping == DispatchAs(Keeping)

\* The foreign runtime calls an implementation whose outcome is pending: the
\* runtime stays in that call until the outcome settles.
DispatchPending ==
    /\ ~pending.on
    /\ \E fn_id \in DOMAIN fnMap, argc \in {0, 1} :
         Commit(cToHostCallbackFunctionPending(CallerPtrs(World, Ctx, fn_id, argc), Ctx,
                    Len(ptrs) + 1, IF argc = 0 THEN <<>> ELSE <<Len(ptrs) + 2>>, fn_id),
                [Info("dispatchPending", 0, <<>>, NoResult) EXCEPT !.fnId = fn_id])

\* What a pending outcome settles as.
Settlements ==
    {[k |-> k, d |-> 0] : k \in {"void", "arg", "new", "value", "error", "throwError",
                                 "throwNullish", "disposeArgs"}}

SettlePending ==
    /\ pending.on
    /\ \E b \in Settlements :
         Commit(settlePending(World, b), Info("settle", 0, pending.scope, NoResult))

\* The implementation, its outcome still pending, disposes a handle it was passed.
PendingDispose ==
    /\ pending.on
    /\ \E i \in 1..Len(pending.scope) :
         Commit(Ok(LifetimeDispose(World, pending.scope[i]), NoHandle),
                Info("handle.dispose", 0, <<pending.scope[i]>>, NoResult))

\* The callback bridge with implementations whose outcome is pending.
NextAsync ==
    \/ NewFunction
    \/ Dispatch
    \/ DispatchPending
    \/ SettlePending
    \/ PendingDispose

SpecAsync == Init /\ [][NextAsync]_vars

\* An inbound call of an implementation that fails.
DispatchThrowing == DispatchAs(Throwing)

\* throw(error) by the host, with a host Error or one of its handles
Throw ==
    \/ Commit(throw(World, "Error", NoHandle), Info("throw", 0, <<>>, NoResult))
    \/ \E h \in Sorts : Commit(throw(World, "Handle", h), Info("throw", 0, <<h>>, NoResult))

AccessUndefined == Commit(getUndefined(World), Info("undefined", 0, <<>>, NoResult))

\* Errors thrown into the runtime, by the host and by its implementations.
NextThrow ==
    \/ AccessUndefined
    \/ NewFunction
    \/ DispatchThrowing
    \/ Throw

SpecThrow == Init /\ [][NextThrow]_vars

\* The callback bridge, with the deferred promises host functions return.
NextBridge ==
    \/ NewFunction
    \/ Dispatch
    \/ NewPromise
    \/ Resolve
    \/ Reject

SpecBridge == Init /\ [][NextBridge]_vars

\* handle.dispose() by the host on a duplicate an implementation kept
KeptDispose ==
    \E h \in Public :
        /\ handles[h].alive /\ ptrs[handles[h].ptr].by = "QTS_DupValuePointer"
        /\ Commit(Ok(LifetimeDispose(World, h), NoHandle),
                  Info("handle.dispose", 0, <<h>>, NoResult))

\* The callback bridge, with the handles implementations leave to the host.
NextBorrow ==
    \/ NewFunction
    \/ Dispatch
    \/ DispatchKeeping
    \/ KeptDispose

SpecBorrow == Init /\ [][NextBorrow]_vars

\* The context operations that take handles and return outcomes.
NextCall ==
    \/ NewObject
    \/ CallFunction
    \/ EvalCode

SpecCall == Init /\ [][NextCall]_vars

\* Outcomes and handles the host holds, and unwrapResult on them.
NextUnwrap ==
    \/ NewObject
    \/ EvalCode
    \/ UnwrapResult

SpecUnwrap == Init /\ [][NextUnwrap]_vars

\* ---------------------------------------------------------------- claims
\* The position of the first event ev in a log, 0 when it is absent.
Pos(log, ev) ==
    IF \E i \in 1..Len(log) : log[i] = ev
    THEN CHOOSE i \in 1..Len(log) : log[i] = ev /\ \A j \in 1..(i - 1) : log[j] # ev
    ELSE 0

\* The pointer a primitive was called on (its first call in the log), 0 when absent.
Arg(log, name) ==
    IF \E i \in 1..Len(log) : log[i][1] = name
    THEN log[CHOOSE i \in 1..Len(log) : log[i][1] = name /\ \A j \in 1..(i - 1) : log[j][1] # name][2]
    ELSE 0

\* How many times a primitive was called.
Times(log, name) == Cardinality({i \in 1..Len(log) : log[i][1] = name})

PtrOf(h) == handles[h].ptr
Callbacks(d) == {deferreds[d].resolveHandle, deferreds[d].rejectHandle}
Three(d) == {deferreds[d].handle} \cup Callbacks(d)
SettleOps == {"resolve", "reject"}

\* The step is a call of one of ops on deferred promise d.
IsCall(ops, d) == last'.op \in ops /\ last'.d = d

\* The step made no primitive call, raised nothing and changed no handle.
NoOp ==
    /\ last'.ffi = <<>>
    /\ last'.raised = NoRaise
    /\ handles' = handles
    /\ ptrs' = ptrs

\* C1: once a resolve or reject call has returned, both callback handles are
\* disposed, and every further resolve or reject (in any order, any number of
\* times, with any value) makes no foreign call, changes no handle and raises
\* nothing.
C1_CallbacksDisposed ==
    \A d \in Deferreds : deferreds[d].invoked => \A h \in Callbacks(d) : ~handles[h].alive
C1_FurtherCallNoOp ==
    \A d \in Deferreds : (deferreds[d].invoked /\ IsCall(SettleOps, d)) => NoOp
C1_SettledOnce == [] C1_CallbacksDisposed /\ [][C1_FurtherCallNoOp]_vars
C1_Witness ==
    \E d \in Deferreds :
        /\ deferreds[d].settled = 1 /\ ~deferreds[d].disposed
        /\ last.op = "reject" /\ last.d = d /\ last.ffi = <<>>

\* C2: a context operation given a handle of another context, in any argument
\* position, fails with the ownership error before any foreign call.
C2_ForeignHandleRejected ==
    (/\ last.op = "callFunction"
     /\ \E i \in 1..Len(last.args) : handles[last.args[i]].owner \notin {NoOwner, Ctx})
    => (last.raised = "NotOwned" /\ last.ffi = <<>>)

\* An inbound call reached a registered implementation.
Dispatched == last.op = "dispatch" /\ Reaches(last.ctx, last.fnId)

\* C3: an inbound call with a matching context and a registered function id
\* invokes the bound implementation exactly once.  When the implementation
\* returns a usable handle (directly or as {value}), the bridge returns a
\* pointer made by the duplicate primitive from that handle's raw value, the
\* duplication precedes the disposal of the call scope, which disposes the
\* handle; when it returns nothing, the bridge returns 0 and calls neither
\* the duplicate nor the throw primitive.
C3_DispatchForwardsResult ==
    Dispatched =>
        LET h == last.impl.h IN
        /\ last.implCalls = 1 /\ Times(last.ffi, "fn.apply") = 1
        /\ last.impl.fn = fnMap[last.fnId]
        /\ (last.impl.tag \in {"handle", "value"} /\ last.impl.alive) =>
              /\ last.raised = NoRaise /\ last.ret # 0
              /\ last.ret # PtrOf(h)
              /\ ptrs[last.ret].by = "QTS_DupValuePointer"
              /\ ptrs[last.ret].obj = ptrs[PtrOf(h)].obj
              /\ ptrs[last.ret].frees = 0
              /\ 0 < Pos(last.ffi, <<"QTS_DupValuePointer", PtrOf(h)>>)
              /\ Pos(last.ffi, <<"QTS_DupValuePointer", PtrOf(h)>>)
                    < Pos(last.ffi, <<"Scope.dispose", 0>>)
              /\ ~handles[h].alive
              /\ Times(last.ffi, "QTS_Throw") = 0
        /\ last.impl.tag = "nothing" =>
              /\ last.raised = NoRaise /\ last.ret = 0
              /\ Times(last.ffi, "QTS_DupValuePointer") = 0
              /\ Times(last.ffi, "QTS_Throw") = 0
C3_Witness ==
    /\ Dispatched /\ last.impl.tag = "value" /\ last.impl.alive
    /\ last.ret # 0 /\ ptrs[last.ret].holder = "runtime"

\* C4: when a registered implementation raises, whatever it throws, or
\* returns an {error} outcome, the inbound call raises nothing in the host,
\* calls the throw primitive exactly once and returns the pointer the throw
\* primitive returned.
C4_FailureBecomesForeignException ==
    (Dispatched /\ (last.impl.raised # NoRaise \/ last.impl.tag = "error")) =>
        /\ last.raised = NoRaise
        /\ Times(last.ffi, "QTS_Throw") = 1
        /\ last.ret # 0
        /\ ptrs[last.ret].by = "QTS_Throw" /\ ptrs[last.ret].exc

\* C5: every outcome of callFunction and evalCode has exactly one branch; in
\* the error branch the raw result was freed once and no handle wraps it, in
\* the value branch one owned handle wraps it and it was not freed.
C5_TwoBranchOutcome ==
    (last.op \in {"callFunction", "evalCode"} /\ last.raised = NoRaise) =>
        LET R == last.result
            p == Arg(last.ffi, "QTS_ResolveException")
            wraps == {h \in Handles : PtrOf(h) = p}
        IN /\ (R.value # NoHandle) # (R.error # NoHandle)
           /\ R.error # NoHandle =>
                /\ ptrs[p].frees = 1 /\ wraps = {}
                /\ handles[R.error].kind = "owned" /\ handles[R.error].alive
                /\ ptrs[PtrOf(R.error)].frees = 0
           /\ R.value # NoHandle =>
                /\ ptrs[p].frees = 0 /\ wraps = {R.value}
                /\ handles[R.value].kind = "owned" /\ handles[R.value].alive
C5_Witness == last.op = "callFunction" /\ last.result.error # NoHandle

\* C6: after dispose() the promise handle and both callback handles are not
\* alive, a repeated dispose() does nothing, and over any sequence of resolve,
\* reject and dispose the free primitive is invoked at most once on each of
\* the three foreign values.
C6_AllDisposed ==
    \A d \in Deferreds :
        /\ deferreds[d].disposed => \A h \in Three(d) : ~handles[h].alive
        /\ \A h \in Three(d) : ptrs[PtrOf(h)].frees <= 1
C6_Idempotent ==
    \A d \in Deferreds : (deferreds[d].disposed /\ IsCall({"dispose"}, d)) => NoOp
C6_DisposeComplete == [] C6_AllDisposed /\ [][C6_Idempotent]_vars
C6_Witness ==
    \E d \in Deferreds :
        /\ deferreds[d].settled = 1 /\ last.op = "dispose" /\ last.d = d
        /\ last.ffi = <<<<"QTS_FreeValuePointer", PtrOf(deferreds[d].handle)>>>>

\* C7: resolve or reject after dispose() invokes no foreign callback, does
\* not fire the settled signal, changes no handle and raises nothing.
C7_NoOpAfterDispose ==
    \A d \in Deferreds :
        (deferreds[d].disposed /\ IsCall(SettleOps, d)) =>
            (NoOp /\ deferreds'[d].settled = deferreds[d].settled)
C7_AfterDispose == [][C7_NoOpAfterDispose]_vars
C7_Witness ==
    \E d \in Deferreds :
        /\ deferreds[d].disposed /\ deferreds[d].settled = 0
        /\ last.op = "resolve" /\ last.d = d /\ last.raised = NoRaise

\* C8: the settled signal is fired at most once; the resolve or reject call
\* that returns on a deferred promise not yet disposed has fired it; and it is
\* fired after the foreign callback was invoked and both callback handles
\* were disposed.
C8_FiredOnce ==
    \A d \in Deferreds :
        /\ deferreds[d].settled <= 1
        /\ (last.op \in SettleOps /\ last.d = d /\ last.raised = NoRaise
              /\ ~deferreds[d].disposed) => deferreds[d].settled = 1
C8_FiredLast ==
    \A d \in Deferreds :
        deferreds'[d].settled > deferreds[d].settled =>
            LET cb == IF last'.op = "resolve" THEN deferreds[d].resolveHandle
                      ELSE deferreds[d].rejectHandle
                call == Pos(last'.ffi, <<"QTS_Call", PtrOf(cb)>>)
                fired == Pos(last'.ffi, <<"onSettled", d>>)
            IN /\ IsCall(SettleOps, d)
               /\ 0 < call
               /\ \A h \in Callbacks(d) :
                    /\ call < Pos(last'.ffi, <<"QTS_FreeValuePointer", PtrOf(h)>>)
                    /\ Pos(last'.ffi, <<"QTS_FreeValuePointer", PtrOf(h)>>) < fired
                    /\ ~handles'[h].alive
C8_SettledSignal == [] C8_FiredOnce /\ [][C8_FiredLast]_vars
C8_Witness ==
    \E d \in Deferreds :
        /\ deferreds[d].settled = 1 /\ last.op = "reject" /\ last.d = d
        /\ Pos(last.ffi, <<"onSettled", d>>) = Len(last.ffi)

\* C9: alive is true exactly when one of the three handles is alive; after a
\* resolve or reject call has returned, disposing the promise handle leaves
\* alive false and each of the three foreign references released.
C9_AliveFlag ==
    \A d \in Deferreds :
        /\ DeferredAlive(World, d) <=> \E h \in Three(d) : handles[h].alive
        /\ (deferreds[d].invoked /\ ~handles[deferreds[d].handle].alive) =>
              /\ ~DeferredAlive(World, d)
              /\ \A h \in Three(d) : ptrs[PtrOf(h)].frees = 1
C9_Witness ==
    \E d \in Deferreds :
        /\ deferreds[d].settled = 1 /\ ~deferreds[d].disposed
        /\ last.op = "handle.dispose" /\ last.args = <<deferreds[d].handle>>
        /\ ~DeferredAlive(World, d)

\* C10: a deferred promise whose handle a host implementation returned from
\* an inbound call, and on which a resolve or reject call has returned (before
\* or after the inbound call), needs no other clean-up: its three handles are
\* not alive, each of the three foreign references was freed exactly once, and
\* the foreign runtime holds a duplicated reference to the promise that the
\* host has not freed.
C10_ReturnedDeferredClean ==
    \A d \in Deferreds :
        (deferreds[d].returned /\ deferreds[d].invoked) =>
            /\ \A h \in Three(d) : ~handles[h].alive /\ ptrs[PtrOf(h)].frees = 1
            /\ \E p \in 1..Len(ptrs) :
                  /\ ptrs[p].by = "QTS_DupValuePointer" /\ ptrs[p].holder = "runtime"
                  /\ ptrs[p].obj = ptrs[PtrOf(deferreds[d].handle)].obj
                  /\ p # PtrOf(deferreds[d].handle)
                  /\ ptrs[p].frees = 0
C10_Witness ==
    \E d \in Deferreds :
        /\ deferreds[d].returned /\ deferreds[d].settled = 1
        /\ last.op = "resolve" /\ last.d = d /\ last.raised = NoRaise
        /\ Times(last.ffi, "QTS_Call") = 1

\* A handle made by dup() from a value the foreign caller owns.
IsArgDup(hs, ps, h) ==
    /\ hs[h].kind = "owned"
    /\ ps[hs[h].ptr].by = "QTS_DupValuePointer" /\ ps[hs[h].ptr].holder = "host"
    /\ \E q \in 1..Len(ps) : ps[q].holder = "caller" /\ ps[q].obj = ps[hs[h].ptr].obj

\* C11: the free primitive is never invoked on a value the foreign caller
\* owns (the this-value and arguments of an inbound call), whoever disposes
\* the borrowed handles; a handle made by dup() from such a value is alive
\* until its own dispose(), which frees its pointer exactly once; and the
\* inbound call (with the disposal of its call scope) leaves such a handle alive.
C11_BorrowedNeverFreed ==
    /\ \A p \in 1..Len(ptrs) : ptrs[p].holder = "caller" => ptrs[p].frees = 0
    /\ \A h \in Handles :
          (handles[h].kind = "weak" /\ last.op = "dispatch") => ~handles[h].alive
    /\ \A h \in Handles :
          IsArgDup(handles, ptrs, h) =>
              ptrs[PtrOf(h)].frees = (IF handles[h].alive THEN 0 ELSE 1)
C11_DupOutlivesScope ==
    last'.op = "dispatch" =>
        \A h \in 1..Len(handles') :
            (IsArgDup(handles', ptrs', h) /\ (h > Len(handles) \/ handles[h].alive))
                => handles'[h].alive
C11_BorrowedArguments == [] C11_BorrowedNeverFreed /\ [][C11_DupOutlivesScope]_vars
C11_Witness ==
    \E h \in Handles :
        /\ IsArgDup(handles, ptrs, h) /\ ~handles[h].alive /\ ptrs[PtrOf(h)].frees = 1
        /\ last.op = "handle.dispose" /\ last.args = <<h>>

\* C12: unwrapResult on a success outcome changes nothing and returns the
\* value handle, still alive if it was; on an error outcome holding an owned
\* handle it raises a host error and leaves the handle not alive, its pointer
\* freed once more exactly when the handle was alive, also when dumping it
\* raises (a handle of another context, a handle already disposed).
C12_Unwrap ==
    last'.op = "unwrapResult" =>
        LET v == last'.result.value
            err == last'.result.error
        IN /\ v # NoHandle =>
                /\ last'.raised = NoRaise /\ last'.ret = v /\ last'.ffi = <<>>
                /\ handles' = handles /\ ptrs' = ptrs
           /\ (err # NoHandle /\ handles[err].kind = "owned") =>
                /\ last'.raised # NoRaise
                /\ ~handles'[err].alive
                /\ ptrs'[PtrOf(err)].frees
                     = ptrs[PtrOf(err)].frees + (IF handles[err].alive THEN 1 ELSE 0)
                /\ ptrs'[PtrOf(err)].frees = 1
C14_FreedWhenDead ==
    \A h \in Handles :
        handles[h].kind = "owned" => ptrs[PtrOf(h)].frees = (IF handles[h].alive THEN 0 ELSE 1)
C14_DisposeStep ==
    (last'.op = "handle.dispose" /\ handles[last'.args[1]].kind = "owned") =>
        LET h == last'.args[1] IN
        /\ last'.raised = NoRaise /\ ~handles'[h].alive
        /\ handles[h].alive => last'.ffi = <<<<"QTS_FreeValuePointer", PtrOf(h)>>>>
        /\ ~handles[h].alive => NoOp
C14_DisposeOnce == [] C14_FreedWhenDead /\ [][C14_DisposeStep]_vars
C14_Witness ==
    /\ last.op = "handle.dispose" /\ last.ffi = <<>>
    /\ handles[last.args[1]].kind = "owned" /\ ptrs[PtrOf(last.args[1])].frees = 1

\* C20: an inbound call with another context identity, or with a function id
\* that has no registered implementation, raises a host error and does nothing
\* else: no implementation is invoked, no handle is created, no scope is
\* disposed and no foreign primitive is called.
C20_RejectedCall ==
    (last'.op = "dispatch" /\ ~(last'.ctx = Ctx /\ last'.fnId \in DOMAIN fnMap)) =>
        /\ last'.raised = (IF last'.ctx # Ctx THEN "MismatchedCtx" ELSE "NoCallback")
        /\ last'.implCalls = 0 /\ last'.ffi = <<>>
        /\ handles' = handles /\ ptrs' = ptrs /\ deferreds' = deferreds
        /\ fnMap' = fnMap /\ fnNextId' = fnNextId
C20_RejectedBeforeAnything == [][C20_RejectedCall]_vars
C20_Witness ==
    /\ last.op = "dispatch" /\ last.raised = "NoCallback"
    /\ fnNextId >= 1 /\ last.fnId = fnNextId + 1

\* C18: an inbound call that reaches an implementation disposes its call
\* scope exactly once, whatever the implementation did (returned a handle,
\* nothing or an {error} outcome, or raised), and after settlement: after the
\* implementation was invoked and after the result was duplicated or the
\* failure thrown, so that only disposals follow it; the borrowed handles the
\* scope managed are then not alive.
C18_ScopeDisposedOnce ==
    Dispatched =>
        LET at == Pos(last.ffi, <<"Scope.dispose", 0>>) IN
        /\ last.impl.tag \in {"handle", "value", "nothing", "error"} \/ last.impl.raised # NoRaise
        /\ Times(last.ffi, "Scope.dispose") = 1
        /\ Pos(last.ffi, <<"fn.apply", 0>>) < at
        /\ \A i \in 1..Len(last.ffi) :
              i > at <=> (i # at /\ last.ffi[i][1] = "QTS_FreeValuePointer"
                                 /\ ptrs[last.ffi[i][2]].frees = 1
                                 /\ \A j \in 1..(at - 1) : last.ffi[j] # last.ffi[i])
        /\ \A h \in Handles : handles[h].kind = "weak" => ~handles[h].alive
C18_Witness ==
    /\ Dispatched /\ last.impl.raised = "Error"
    /\ Pos(last.ffi, <<"Scope.dispose", 0>>) = Len(last.ffi)

\* The handles the scope of the pending inbound call manages.
PendingScope == {pending.scope[i] : i \in 1..Len(pending.scope)}

\* While the outcome is pending the scope has not been disposed: the step that
\* left the call pending invoked the implementation once and disposed
\* nothing, and no value the scope manages has been freed.
C19_KeptWhilePending ==
    pending.on =>
        /\ \A h \in PendingScope : ptrs[PtrOf(h)].frees = 0
        /\ last.op = "dispatchPending" =>
              /\ Times(last.ffi, "fn.apply") = 1 /\ last.implCalls = 1
              /\ Times(last.ffi, "Scope.dispose") = 0
              /\ Times(last.ffi, "QTS_FreeValuePointer") = 0
              /\ PendingScope # {} /\ \A h \in PendingScope : handles[h].alive

\* A step taken while the outcome stays pending ends no managed handle, unless
\* it is the implementation's own dispose of that handle.
C19_StaysAlive ==
    (pending.on /\ pending'.on) =>
        /\ pending' = pending
        /\ Times(last'.ffi, "Scope.dispose") = 0
        /\ \A h \in PendingScope :
              (handles[h].alive /\ ~handles'[h].alive)
                  => (last'.op = "handle.dispose" /\ last'.args = <<h>>)

\* The step in which the pending outcome settles disposes the scope once,
\* after the settled outcome was forwarded: a result handle is managed by the
\* scope, its raw value duplicated for the runtime and the handle disposed
\* once; nothing is forwarded as 0; an error outcome or raised failure is
\* thrown into the runtime (a nullish failure excepted, which the conversion
\* of the failure raises on).  Every handle the scope managed is then not alive.
C19_SettledOnce ==
    (pending.on /\ ~pending'.on) =>
        LET i == last'.impl
            at == Pos(last'.ffi, <<"Scope.dispose", 0>>) IN
        /\ last'.op = "settle" /\ last'.implCalls = 0
        /\ Times(last'.ffi, "Scope.dispose") = 1
        /\ \A k \in 1..Len(last'.ffi) :
              k > at => last'.ffi[k][1] = "QTS_FreeValuePointer"
        /\ \A h \in PendingScope : ~handles'[h].alive /\ ptrs'[PtrOf(h)].frees = 0
        /\ (i.tag \in {"handle", "value"} /\ i.alive) =>
              /\ last'.raised = NoRaise
              /\ ptrs'[last'.ret].by = "QTS_DupValuePointer"
              /\ ptrs'[last'.ret].holder = "runtime"
              /\ ptrs'[last'.ret].obj = ptrs'[handles'[i.h].ptr].obj
              /\ Pos(last'.ffi, <<"QTS_DupValuePointer", handles'[i.h].ptr>>) \in 1..(at - 1)
              /\ ~handles'[i.h].alive
              /\ handles'[i.h].kind = "owned" => ptrs'[handles'[i.h].ptr].frees = 1
        /\ i.tag = "nothing" =>
              /\ last'.raised = NoRaise /\ last'.ret = 0
              /\ Times(last'.ffi, "QTS_Throw") = 0
              /\ Times(last'.ffi, "QTS_DupValuePointer") = 0
        /\ (i.tag = "error" \/ i.raised \notin {NoRaise, "Nullish"}) =>
              /\ last'.raised = NoRaise
              /\ Times(last'.ffi, "QTS_Throw") = 1
              /\ \E k \in 1..(at - 1) : last'.ffi[k][1] = "QTS_Throw"
        /\ i.raised = "Nullish" => last'.raised # NoRaise

\* An implementation that raises synchronously has its scope disposed in the
\* same call: nothing is left pending.
C19_RaisedSynchronously ==
    (Dispatched /\ last.impl.raised # NoRaise) =>
        (~pending.on /\ Times(last.ffi, "Scope.dispose") = 1)

Registered == {h \in (Len(handles) + 1)..Len(handles') : handles'[h].kind = "owned"}

\* Where in the log of the step handle h was freed (0: it was not).
FreedAt(h) == Pos(last'.ffi, <<"QTS_FreeValuePointer", handles'[h].ptr>>)

\* C15: a defineProp call whose ownership check passed runs its block in
\* withScope: every Lifetime the block registered (the key, the getter, the
\* setter) is disposed exactly once, in reverse registration order, after
\* the block ended, whether the block returned (QTS_DefineProp was called)
\* or raised (the target was already disposed); nothing else is
\* disposed, and the block's outcome is returned or raised again.
C15_DefinePropStep ==
    (last'.op = "defineProp" /\ last'.raised # "NotOwned") =>
        LET at == Pos(last'.ffi, <<"Scope.dispose", 0>>)
            h == last'.args[1] IN
        /\ Times(last'.ffi, "Scope.dispose") = 1
        /\ Registered # {}
        /\ \A r \in Registered :
              /\ ~handles'[r].alive
              /\ ptrs'[handles'[r].ptr].frees = 1
              /\ FreedAt(r) > at
        /\ \A r, s \in Registered : r < s => FreedAt(s) < FreedAt(r)
        /\ Times(last'.ffi, "QTS_FreeValuePointer") = Cardinality(Registered)
        /\ \A k \in 1..Len(handles) : handles'[k] = handles[k]
        /\ IF handles[h].alive
           THEN /\ last'.raised = NoRaise
                /\ Pos(last'.ffi, <<"QTS_DefineProp", handles[h].ptr>>) \in 1..(at - 1)
           ELSE /\ last'.raised = "UseAfterFree"
                /\ Times(last'.ffi, "QTS_DefineProp") = 0
C15_WithScope == [][C15_DefinePropStep]_vars
C15_Witness ==
    /\ last.op = "defineProp" /\ last.raised = "UseAfterFree"
    /\ Times(last.ffi, "QTS_FreeValuePointer") = 2
    /\ Times(last.ffi, "QTS_NewFunction") = 1

\* The entries of the context memory's scope.
Entries == 1..Len(memory.entries)

\* C16: a dispose() of the context memory's scope attempts every entry that was
\* alive, last registered first, also after the disposal of one of them
\* failed: every entry whose own disposal did not fail is not alive
\* afterwards, whether dispose() returns or raises; it raises exactly when a
\* disposal failed, and the scope is not alive afterwards.
C16_DisposeStep ==
    (last'.op = "memory.dispose" /\ memory.alive) =>
        /\ \A i \in Entries :
              memory.entries[i].alive =>
                  \/ Times(last'.ffi, "dispose") + Times(last'.ffi, "dispose.failed")
                        = Cardinality({j \in Entries : memory.entries[j].alive})
                     /\ Pos(last'.ffi, <<"dispose", i>>) > 0
                     /\ ~memory'.entries[i].alive
                  \/ Pos(last'.ffi, <<"dispose.failed", i>>) > 0
        /\ \A i, j \in Entries :
              (i < j /\ memory.entries[i].alive /\ memory.entries[j].alive) =>
                  \E a, b \in 1..Len(last'.ffi) :
                      a < b /\ last'.ffi[a][2] = j /\ last'.ffi[b][2] = i
        /\ (last'.raised = "DisposeFailed") <=> (Times(last'.ffi, "dispose.failed") > 0)
        /\ last'.raised \in {NoRaise, "DisposeFailed"}
        /\ ~memory'.alive
C16_BestEffort == [][C16_DisposeStep]_vars
C16_Witness ==
    /\ last.op = "memory.dispose" /\ last.raised = "DisposeFailed"
    /\ Len(last.ffi) = 3
    /\ last.ffi[1] = <<"dispose.failed", 3>>
    /\ last.ffi[2][1] = "dispose" /\ last.ffi[3][1] = "dispose"
    /\ \A i \in {1, 2} : ~memory.entries[i].alive

\* The foreign value a handle denotes, the references to a value that were
\* not released, the handles denoting the value of handle a, and the
\* handles registered with the host's scope.
ObjOf(h) == ptrs[handles[h].ptr].obj
Refs(o) == Cardinality({p \in 1..Len(ptrs) : ptrs[p].obj = o /\ ptrs[p].frees = 0})
Copies(a) == {h \in Handles : ObjOf(h) = ObjOf(a)}
InScope == {hostScope.entries[i] : i \in 1..Len(hostScope.entries)}

\* The statement as made: once the scope is disposed, a lifetime registered
\* with it that was duplicated three times has no reference left, and it and
\* its three duplicates are not alive.
C17_AllFourReleased ==
    (last.op = "scope.dispose" /\ ~hostScope.alive) =>
        \A a \in InScope :
            Cardinality(Copies(a)) = 4 =>
                (Refs(ObjOf(a)) = 0 /\ \A h \in Copies(a) : ~handles[h].alive)

\* The references to a value are those of the handles alive on it (four after
\* three dup() calls: the duplicates and the original); once the scope is
\* disposed every handle registered with it is not alive and its reference
\* was released once.
C17_CountIsAlive ==
    /\ \A a \in Handles :
          Refs(ObjOf(a)) = Cardinality({h \in Copies(a) : handles[h].alive})
    /\ ~hostScope.alive =>
          \A a \in InScope : ~handles[a].alive /\ ptrs[handles[a].ptr].frees = 1

\* scope.dispose() leaves a handle that is not registered with the scope, a
\* duplicate included, as it was.
C17_UnmanagedKept ==
    last'.op = "scope.dispose" =>
        \A h \in Handles \ InScope :
            handles'[h] = handles[h] /\ ptrs'[handles[h].ptr] = ptrs[handles[h].ptr]

\* C17 (amended): for a reference-counted Lifetime A registered in Scope S,
\* after three A.dup() calls four references are outstanding; S.dispose()
\* releases A and the duplicates that were registered in S themselves, so
\* that the count is 0 and all four are not alive when every duplicate was
\* registered in S, while a duplicate that was not stays alive with its
\* reference.
C17_ScopeReleasesRegistered == [] C17_CountIsAlive /\ [][C17_UnmanagedKept]_vars
C17_Witness ==
    /\ last.op = "scope.dispose" /\ ~hostScope.alive
    /\ \E a \in InScope :
          /\ Cardinality(Copies(a)) = 4 /\ Copies(a) \subseteq InScope
          /\ Refs(ObjOf(a)) = 0
          /\ \A h \in Copies(a) : ~handles[h].alive

\* The conversions whose executor registered its two functions with the
\* promise, and the jobs that will call a function of conversion c.
Conversions == 1..Len(conversions)
Registered13(c) ==
    \E i \in 1..Len(vm.reactions) :
        /\ vm.reactions[i].obj = conversions[c].obj
        /\ {vm.reactions[i].onFulfilled, vm.reactions[i].onRejected}
              = {conversions[c].resolveFn, conversions[c].rejectFn}
Queued(c) ==
    \E i \in 1..Len(vm.jobs) :
        vm.jobs[i].fn \in {conversions[c].resolveFn, conversions[c].rejectFn}
SettledAs(o, state) ==
    \E i \in 1..Len(vm.settled) : vm.settled[i].obj = o /\ vm.settled[i].state = state
SettledValue(o) ==
    vm.settled[CHOOSE i \in 1..Len(vm.settled) : vm.settled[i].obj = o].value

\* A conversion is settled by a drain only, and with what the promise was
\* settled with: a conversion registered with a promise has no outcome while
\* the promise is pending or its job is queued; once the job was run it has
\* a {value} outcome when the promise was resolved and an {error} outcome
\* when it was rejected, whose handle is alive, is the host's own duplicate
\* and denotes the value the promise was settled with.
C13_OutcomeFollowsPromise ==
    \A c \in Conversions :
        Registered13(c) =>
            LET o == conversions[c].obj
                h == conversions[c].h IN
            IF ~(SettledAs(o, "fulfilled") \/ SettledAs(o, "rejected")) \/ Queued(c)
            THEN conversions[c].tag = "none"
            ELSE /\ conversions[c].tag = (IF SettledAs(o, "fulfilled") THEN "value" ELSE "error")
                 /\ handles[h].kind = "owned" /\ handles[h].alive
                 /\ ptrs[handles[h].ptr].by = "QTS_DupValuePointer"
                 /\ ptrs[handles[h].ptr].holder = "host" /\ ptrs[handles[h].ptr].frees = 0
                 /\ ptrs[handles[h].ptr].obj = SettledValue(o)

\* A resolve or reject call that reaches the capability function settles the
\* promise with the value of the handle passed (undefined when none is).
C13_SettledWithArgument ==
    \A d \in Deferreds :
        (IsCall(SettleOps, d) /\ Times(last'.ffi, "QTS_Call") = 1
         /\ ~IsSettled([vm |-> vm], ptrs[handles[deferreds[d].handle].ptr].obj)) =>
            LET o == ptrs[handles[deferreds[d].handle].ptr].obj
                v == last'.args[1] IN
            \E i \in 1..Len(vm'.settled) :
                /\ vm'.settled[i].obj = o
                /\ vm'.settled[i].state = (IF last'.op = "resolve" THEN "fulfilled"
                                           ELSE "rejected")
                /\ vm'.settled[i].value =
                       ptrs'[handles'[IF v = NoHandle THEN cUndefined' ELSE v].ptr].obj

\* C13: after newPromise, resolvePromise on the promise handle, resolve(h) and
\* a drain of the pending jobs, the conversion has a {value} outcome whose
\* handle denotes the value of h; after reject(h), an {error} outcome
\* likewise; before the drain it has none.
C13_ConversionSettles ==
    [] C13_OutcomeFollowsPromise /\ [][C13_SettledWithArgument]_vars
C13_Witness ==
    /\ last.op = "executePendingJobs"
    /\ \E c \in Conversions, v \in Handles :
          /\ Registered13(c) /\ conversions[c].tag = "value"
          /\ ptrs[handles[v].ptr].by = "QTS_NewObject"
          /\ ptrs[handles[conversions[c].h].ptr].obj = ptrs[handles[v].ptr].obj
          /\ conversions[c].h # v /\ handles[conversions[c].h].alive

\* The pointers and handles made by the step.
NewPtrs == (Len(ptrs) + 1)..Len(ptrs')
NewHandles == (Len(handles) + 1)..Len(handles')

\* The callback a resolve or reject step calls.
CalledBack(d) ==
    IF last'.op = "resolve" THEN deferreds[d].resolveHandle ELSE deferreds[d].rejectHandle

\* The foreign call of the step yielded the error branch.
CallFailed == \E p \in NewPtrs : ptrs'[p].by = "QTS_Call" /\ ptrs'[p].exc

\* A resolve or reject whose foreign call yields the error branch raises a
\* host error, fires no settled signal, leaves the deferred promise and the
\* aliveness of its three handles as they were, and leaves the one error
\* handle it made disposed, its pointer freed once.
C25_FailureChangesNothing ==
    \A d \in Deferreds :
        (IsCall(SettleOps, d) /\ CallFailed) =>
            /\ last'.raised = "HostError"
            /\ Times(last'.ffi, "onSettled") = 0
            /\ deferreds'[d] = deferreds[d]
            /\ \A h \in Three(d) : handles'[h].alive = handles[h].alive
            /\ DeferredAlive([handles |-> handles', deferreds |-> deferreds'], d)
                 = DeferredAlive(World, d)
            /\ Cardinality({h \in NewHandles : ptrs'[handles'[h].ptr].by = "QTS_ResolveException"}) = 1
            /\ \A h \in NewHandles :
                 ptrs'[handles'[h].ptr].by = "QTS_ResolveException" =>
                    /\ ~handles'[h].alive
                    /\ ptrs'[handles'[h].ptr].frees = 1
                    /\ Times(last'.ffi, "QTS_FreeValuePointer") = 2

\* A resolve or reject on callbacks that are alive, with a value that can be
\* read, calls the foreign callback once, whatever the calls before it yielded.
C25_CalledAgain ==
    \A d \in Deferreds :
        (/\ IsCall(SettleOps, d)
         /\ handles[CalledBack(d)].alive
         /\ last'.args[1] # NoHandle => handles[last'.args[1]].alive) =>
            /\ Times(last'.ffi, "QTS_Call") = 1
            /\ Arg(last'.ffi, "QTS_Call") = PtrOf(CalledBack(d))

\* C25: when the foreign call made by resolve or reject yields the error
\* branch, the call raises a host error and leaves the deferred promise as it
\* was: the three handles keep their aliveness, the settled signal is not
\* fired, the error handle of the failed call is disposed exactly once, and a
\* later resolve or reject calls the foreign callback again.
C25_FailedSettle == [][C25_FailureChangesNothing /\ C25_CalledAgain]_vars
C25_Witness ==
    \E d \in Deferreds :
        /\ last.op \in SettleOps /\ last.d = d /\ last.raised = NoRaise
        /\ deferreds[d].settled = 1 /\ Times(last.ffi, "QTS_Call") = 1
        /\ \E p \in 1..Len(ptrs) : ptrs[p].by = "QTS_Call" /\ ptrs[p].exc /\ ptrs[p].frees = 1

\* The guard of resolve and the guard of reject let the call through.
ResolveGuard(d) == resolve(World, d, NoHandle, FALSE).w.ffi # <<>>
RejectGuard(d) == reject(World, d, NoHandle, FALSE).w.ffi # <<>>

\* C26: through any sequence of resolve, reject and dispose calls on a
\* deferred promise made with two alive callback handles, the resolve
\* callback handle and the reject callback handle are both alive or both
\* disposed, and the guards of resolve and reject agree.
C26_GuardsAgree ==
    \A d \in Deferreds :
        /\ handles[deferreds[d].resolveHandle].alive = handles[deferreds[d].rejectHandle].alive
        /\ ResolveGuard(d) = RejectGuard(d)
        /\ ResolveGuard(d) = handles[deferreds[d].resolveHandle].alive
C26_Witness ==
    \E d \in Deferreds :
        /\ last.op = "dispose" /\ last.d = d /\ deferreds[d].settled = 0
        /\ Len(last.ffi) = 3
        /\ \A h \in Callbacks(d) : ~handles[h].alive
        /\ \E p \in 1..Len(ptrs) : ptrs[p].by = "QTS_Call" /\ ptrs[p].exc

\* What an accessor has cached.
Cached(name) ==
    CASE name = "undefined" -> cUndefined
      [] name = "null" -> cNull
      [] name = "true" -> cTrue
      [] name = "false" -> cFalse
      [] name = "global" -> cGlobal
GetPrimitive(name) ==
    CASE name = "undefined" -> "QTS_GetUndefined"
      [] name = "null" -> "QTS_GetNull"
      [] name = "true" -> "QTS_GetTrue"
      [] name = "false" -> "QTS_GetFalse"
      [] name = "global" -> "QTS_GetGlobalObject"
Statics == {h \in Handles : handles[h].kind = "static"}

\* The pointer QTS_GetGlobalObject returned, 0 when it was not called.
GlobalPtr ==
    IF \E p \in 1..Len(ptrs) : ptrs[p].by = "QTS_GetGlobalObject"
    THEN CHOOSE p \in 1..Len(ptrs) : ptrs[p].by = "QTS_GetGlobalObject"
    ELSE 0

\* Each constant and the global object is asked of the runtime at most once,
\* the handles the accessors returned are static and alive, and the one
\* reference to the global object is held while the context is alive and was
\* released once when it is not.
C24_OneReference ==
    /\ \A name \in Accessors : Made(World, {GetPrimitive(name)}) <= 1
    /\ \A name \in Accessors :
         Cached(name) # NoHandle =>
            /\ handles[Cached(name)].kind = "static" /\ handles[Cached(name)].alive
            /\ ptrs[PtrOf(Cached(name))].by = GetPrimitive(name)
    /\ \A p \in 1..Len(ptrs) :
         ptrs[p].by \in {GetPrimitive(name) : name \in Accessors \ {"global"}} => ptrs[p].frees = 0
    /\ GlobalPtr # 0 => ptrs[GlobalPtr].frees = (IF memory.alive THEN 0 ELSE 1)

\* An access returns the cached handle and does nothing else once there is
\* one; the first access asks the runtime once.  dispose() on a handle an
\* accessor returned does nothing.  The disposal of the context frees the
\* reference to the global object, if it was acquired.
C24_AccessStep ==
    /\ \A name \in Accessors :
         (last'.op = name /\ last'.raised = NoRaise) =>
            /\ last'.ret = Cached(name)'
            /\ Cached(name) # NoHandle => (Cached(name)' = Cached(name) /\ NoOp)
            /\ Cached(name) = NoHandle =>
                  /\ Times(last'.ffi, GetPrimitive(name)) = 1 /\ Len(last'.ffi) = 1
                  /\ last'.ret \in NewHandles
    /\ (last'.op = "handle.dispose" /\ last'.args[1] \in Statics) =>
            (NoOp /\ handles'[last'.args[1]].alive)
    /\ (last'.op = "context.dispose" /\ memory.alive /\ GlobalPtr # 0) =>
            /\ Times(last'.ffi, "QTS_FreeValuePointer") = 1
            /\ Arg(last'.ffi, "QTS_FreeValuePointer") = GlobalPtr
    /\ (last'.op = "context.dispose" /\ ~(memory.alive /\ GlobalPtr # 0)) =>
            Times(last'.ffi, "QTS_FreeValuePointer") = 0

\* C24: the handles of undefined, null, true, false and the global object are
\* cached and disposal-free: every access returns the same handle, dispose()
\* on them frees nothing and leaves them alive, and the one reference to the
\* global object, acquired on the first access only, is released exactly
\* once, when the context is disposed.
C24_StaticHandles == [] C24_OneReference /\ [][C24_AccessStep]_vars
C24_Witness ==
    /\ ~memory.alive /\ GlobalPtr # 0 /\ ptrs[GlobalPtr].frees = 1
    /\ last.op = "global" /\ last.ret = cGlobal /\ last.ffi = <<>>
    /\ handles[cGlobal].alive
    /\ \A name \in Accessors : Cached(name) # NoHandle

\* How many times the step freed pointer p.
FreedInStep(p) ==
    Cardinality({i \in 1..Len(last'.ffi) : last'.ffi[i] = <<"QTS_FreeValuePointer", p>>})

\* The step passed the pointer of handle h to the throw primitive, once, and
\* no other.
ThrewHandle(h) ==
    /\ Times(last'.ffi, "QTS_Throw") = 1
    /\ Arg(last'.ffi, "QTS_Throw") = handles'[h].ptr

\* After the throw the step disposed handle h: it is not alive; its pointer
\* was freed once, after the throw, when the handle owns it, and not at all
\* when the handle borrows it.
DisposedAfterThrow(h) ==
    /\ ~handles'[h].alive
    /\ handles'[h].kind = "owned" =>
          /\ FreedInStep(handles'[h].ptr) = 1 /\ ptrs'[handles'[h].ptr].frees = 1
          /\ Pos(last'.ffi, <<"QTS_Throw", handles'[h].ptr>>)
                < Pos(last'.ffi, <<"QTS_FreeValuePointer", handles'[h].ptr>>)
    /\ handles'[h].kind # "owned" => FreedInStep(handles'[h].ptr) = 0

\* dispose() on a static handle did nothing.
StaticKept(h) == handles'[h].alive /\ FreedInStep(handles'[h].ptr) = 0

\* The handle the step threw: the one given to throw, or the one an
\* implementation returned as {error} or raised; alive when it was thrown.
ThrowOfHandle(h) ==
    \/ last'.op = "throw" /\ last'.args = <<h>> /\ handles[h].alive
    \/ /\ last'.op = "dispatch" /\ Reaches(last'.ctx, last'.fnId)
       /\ (last'.impl.tag = "error" \/ last'.impl.raised = "Handle")
       /\ last'.impl.h = h /\ last'.impl.alive

\* The step threw a host Error.
ThrowOfError ==
    \/ last'.op = "throw" /\ last'.args = <<>>
    \/ last'.op = "dispatch" /\ Reaches(last'.ctx, last'.fnId) /\ last'.impl.raised = "Error"

\* The statement for every handle: it is not alive after the throw.
C28_HandleStep ==
    \A h \in 1..Len(handles') :
        ThrowOfHandle(h) => (last'.raised = NoRaise /\ ThrewHandle(h) /\ DisposedAfterThrow(h))
C28_AllDisposed == [][C28_HandleStep]_vars

\* A thrown handle is passed to the throw primitive and then disposed once:
\* an owned or borrowed handle is not alive afterwards, a static one stays alive.
C28_ConsumedStep ==
    \A h \in 1..Len(handles') :
        ThrowOfHandle(h) =>
            /\ last'.raised = NoRaise /\ ThrewHandle(h)
            /\ IF handles'[h].kind = "static" THEN StaticKept(h) ELSE DisposedAfterThrow(h)

\* The error object made from a host Error is thrown and then disposed once.
C28_ErrorStep ==
    ThrowOfError =>
        /\ last'.raised = NoRaise
        /\ Cardinality({h \in NewHandles : ptrs'[handles'[h].ptr].by = "QTS_NewError"}) = 1
        /\ \A h \in NewHandles :
             ptrs'[handles'[h].ptr].by = "QTS_NewError" => (ThrewHandle(h) /\ DisposedAfterThrow(h))

\* C28: an error that is a handle is consumed by the throw path: after
\* throw(handle), or after an implementation returned {error: handle} or raised
\* a handle, the handle was passed to the throw primitive while alive and then
\* disposed exactly once, which leaves it not alive unless it is a static
\* handle; the error object made from a host Error is disposed exactly once
\* after the throw primitive.
C28_ThrowConsumes == [][C28_ConsumedStep /\ C28_ErrorStep]_vars
C28_Witness ==
    /\ last.op = "dispatch" /\ last.impl.tag = "error" /\ last.impl.h # NoHandle
    /\ handles[last.impl.h].kind = "owned" /\ ~handles[last.impl.h].alive
    /\ ptrs[PtrOf(last.impl.h)].frees = 1
    /\ Times(last.ffi, "QTS_Throw") = 1
    /\ \E h \in Handles :
          /\ ptrs[PtrOf(h)].by = "QTS_NewFunction" /\ ~handles[h].alive
          /\ \E p \in 1..Len(ptrs) : ptrs[p].by = "QTS_Throw" /\ ptrs[p].obj # ptrs[last.ret].obj

\* The calls of QTS_NewFunction of the step, in order, with the ids they
\* carried.
IsNewFunction(ev) == ev[1] = "QTS_NewFunction"
Carried == SelectSeq(last'.ffi, IsNewFunction)

\* The implementations a registering step was given, in the order the code
\* registers them: the function of newFunction, the getter and then the
\* setter of defineProp, the two handlers of resolvePromise unless the call of
\* Promise.resolve failed.
Given ==
    CASE last'.op \in {"newFunction", "defineProp"} /\ last'.raised # "NotOwned" -> last'.fns
      [] last'.op = "resolvePromise" /\ last'.raised # "NotOwned"
            /\ Len(conversions') > Len(conversions)
            /\ conversions'[Len(conversions')].resolveFn # 0 -> <<"resolve", "reject">>
      [] OTHER -> <<>>

\* C21: function ids are handed out in strictly increasing order, one per
\* registration including those made by defineProp and resolvePromise, an id
\* is never reused, and each id maps to the implementation it was given.
C21_RegistryStep ==
    /\ fnNextId' = fnNextId + Len(Given)
    /\ DOMAIN fnMap' = 1..fnNextId'
    /\ \A i \in DOMAIN fnMap : fnMap'[i] = fnMap[i]
    /\ Len(Carried) = Len(Given)
    /\ \A k \in 1..Len(Given) :
          /\ Carried[k][2] = fnNextId + k
          /\ fnMap'[fnNextId + k] = Given[k]

C21_IdsIncrease == [][C21_RegistryStep]_vars

C21_Witness ==
    /\ fnNextId = 3 /\ last.op = "newFunction" /\ last.fns = <<"g">>
    /\ fnMap = <<"resolve", "reject", "g">>
\* The handles newFunction returned for function id: those over the id-th
\* pointer QTS_NewFunction handed out.
FunctionHandles(id) ==
    {h \in Handles : /\ ptrs[handles[h].ptr].by = "QTS_NewFunction"
                     /\ FnIdOf(World, h) = id}

\* No handle to function id is alive and its pointer has been freed.
Released(id) ==
    /\ FunctionHandles(id) # {}
    /\ \A h \in FunctionHandles(id) : ~handles[h].alive /\ ptrs[handles[h].ptr].frees = 1

\* C27: a registry entry is never removed and the number of entries never
\* decreases; an inbound call carrying an id still finds and invokes the
\* implementation registered under it, also after the function handle
\* newFunction returned for it has been disposed.
C27_EntryStep ==
    /\ Cardinality(DOMAIN fnMap') >= Cardinality(DOMAIN fnMap)
    /\ \A i \in DOMAIN fnMap : i \in DOMAIN fnMap' /\ fnMap'[i] = fnMap[i]
    /\ last'.op = "handler" =>
          /\ last'.fnId \in DOMAIN fnMap
          /\ last'.raised # "NoCallback"
          /\ last'.impl.fn = fnMap[last'.fnId]
          /\ last'.implCalls = 1

C27_EntriesStay == [][C27_EntryStep]_vars

\* An implementation of the host and a handler of a conversion have been
\* called after their function handles were disposed.
C27_Witness ==
    /\ last.op = "handler" /\ last.implCalls = 1
    /\ last.impl.fn \in {"resolve", "reject"}
    /\ Released(last.fnId)
    /\ \E id \in DOMAIN fnMap : fnMap[id] \in Impls /\ Released(id)
    /\ Made(World, {"this_ptr"}) = 2
\* The foreign calls a resolvePromise step made: the first is the call of
\* Promise.resolve, the second, when there is one, the call of then.
ConvertCalls == {p \in NewPtrs : ptrs'[p].by = "QTS_Call"}
ResolveFailed == \E p \in ConvertCalls : ptrs'[p].exc /\ \A q \in ConvertCalls : p <= q
ThenFailed == \E p \in ConvertCalls : ptrs'[p].exc /\ \E q \in ConvertCalls : q < p

\* The host promise the step returned.
Converted == conversions'[Len(conversions')]

\* A failed call of Promise.resolve: the host promise is fulfilled with the
\* {error} outcome of the call, whose handle is alive, and no function was
\* registered.
FulfilledWithError ==
    /\ Converted.tag = "error" /\ Converted.resolveFn = 0 /\ Converted.rejectFn = 0
    /\ Converted.h \in NewHandles
    /\ handles'[Converted.h].kind = "owned" /\ handles'[Converted.h].alive
    /\ ptrs'[handles'[Converted.h].ptr].by = "QTS_ResolveException"
    /\ ptrs'[handles'[Converted.h].ptr].frees = 0
    /\ Cardinality(ConvertCalls) = 1
    /\ fnNextId' = fnNextId /\ fnMap' = fnMap
    /\ Times(last'.ffi, "QTS_NewFunction") = 0
    /\ vm'.reactions = vm.reactions

\* Otherwise two functions were registered, passed to then as the handler of
\* success and of failure in that order, and their handles disposed with the
\* scope; the host promise is pending, or rejected when the call of then
\* threw.
TwoHandlers ==
    /\ fnNextId' = fnNextId + 2
    /\ fnMap'[fnNextId + 1] = "resolve" /\ fnMap'[fnNextId + 2] = "reject"
    /\ Times(last'.ffi, "QTS_NewFunction") = 2
    /\ Converted.resolveFn = fnNextId + 1 /\ Converted.rejectFn = fnNextId + 2
    /\ Cardinality(ConvertCalls) = 2
    /\ \A h \in NewHandles :
          ptrs'[handles'[h].ptr].by = "QTS_NewFunction" =>
              ~handles'[h].alive /\ ptrs'[handles'[h].ptr].frees = 1
    /\ IF ThenFailed
       THEN Converted.tag = "rejected" /\ vm'.reactions = vm.reactions
       ELSE /\ Converted.tag = "none"
            /\ vm'.reactions = Append(vm.reactions, [obj |-> Converted.obj,
                                                     onFulfilled |-> fnNextId + 1,
                                                     onRejected |-> fnNextId + 2])

C23_ConvertStep ==
    (last'.op = "resolvePromise" /\ last'.raised = NoRaise) =>
        /\ Len(conversions') = Len(conversions) + 1
        /\ \A c \in 1..Len(conversions) : conversions'[c] = conversions[c]
        /\ IF ResolveFailed THEN FulfilledWithError ELSE TwoHandlers

\* The duplicates a handler call made and the handles over them.
HandlerDups == {p \in NewPtrs : ptrs'[p].by = "QTS_DupValuePointer"}
HandlerKept == {h \in NewHandles : handles'[h].ptr \in HandlerDups}

\* The handle a handler call leaves to the host is its own duplicate of the
\* argument, made before the scope of the call is disposed and alive after.
KeptAlive(h) ==
    /\ handles'[h].kind = "owned" /\ handles'[h].alive
    /\ ptrs'[handles'[h].ptr].holder = "host" /\ ptrs'[handles'[h].ptr].frees = 0
    /\ ptrs'[handles'[h].ptr].obj = ptrs'[Len(ptrs) + 2].obj
    /\ 0 < Pos(last'.ffi, <<"QTS_DupValuePointer", Len(ptrs) + 2>>)
    /\ Pos(last'.ffi, <<"QTS_DupValuePointer", Len(ptrs) + 2>>)
          < Pos(last'.ffi, <<"Scope.dispose", 0>>)

\* What a call of a handler of conversion c does to the host promise: the
\* first call fulfils it, a later call changes nothing.
HandlerFulfils(c, h) ==
    IF conversions[c].tag = "none"
    THEN conversions'[c] = [conversions[c] EXCEPT
                               !.tag = IF last'.fnId = conversions[c].resolveFn
                                       THEN "value" ELSE "error",
                               !.h = h]
    ELSE conversions'[c] = conversions[c]

C23_HandlerStep ==
    (last'.op = "handler" /\ last'.d # 0) =>
        /\ last'.raised = NoRaise
        /\ Cardinality(HandlerDups) = 1 /\ Cardinality(HandlerKept) = 1
        /\ \A h \in HandlerKept : KeptAlive(h) /\ HandlerFulfils(last'.d, h)
        /\ \A h \in NewHandles \ HandlerKept : ~handles'[h].alive
        /\ \A c \in 1..Len(conversions) : c # last'.d => conversions'[c] = conversions[c]

\* A host promise that has an outcome keeps it.
C23_Once ==
    \A c \in 1..Len(conversions) :
        conversions[c].tag # "none" => conversions'[c] = conversions[c]

\* C23: resolvePromise returns a host promise fulfilled with the {error}
\* outcome, and registers nothing, when the call of Promise.resolve fails;
\* otherwise it registers exactly two functions as the handlers of success
\* and failure, each of which duplicates its argument so that the handle in
\* the outcome is alive after the scope of the handler's call is disposed;
\* the host promise is fulfilled at most once, with {value} or {error}.
C23_Conversion == [][C23_ConvertStep /\ C23_HandlerStep /\ C23_Once]_vars

\* The failure handler was called after the success handler had fulfilled the
\* host promise with {value}.
C23_Witness ==
    /\ last.op = "handler" /\ last.d # 0
    /\ last.fnId = conversions[last.d].rejectFn
    /\ conversions[last.d].tag = "value"
    /\ handles[conversions[last.d].h].alive
    /\ Made(World, {"QTS_DupValuePointer"}) = 2
\* The primitives a transient buffer is made for.
ConsumersOf(kind) == IF kind = "chars" THEN {"QTS_Eval", "QTS_NewString"} ELSE {"QTS_Call"}

\* A buffer was released once, right after the one call of its primitive, or
\* with no call when reading a value for the call raised.
ReleasedAfterCall(b) ==
    /\ b.frees = 1
    /\ b.freed \in {b.made, b.made + 1}
    /\ b.freed = b.made + 1 => last'.ffi[b.freed][1] \in ConsumersOf(b.kind)
    /\ b.freed = b.made => last'.raised = "UseAfterFree"

\* The buffers each operation makes.
BuffersOf ==
    CASE last'.op \in {"evalCode", "newString"} -> <<"chars">>
      [] last'.op = "callFunction" /\ handles[last'.args[3]].alive -> <<"array">>
      [] last'.op \in {"getProp", "setProp"} /\ last'.key = "string" -> <<"chars">>
      [] OTHER -> <<>>

\* The temporary values getProp and setProp made of a string or number key.
TempKeys ==
    {h \in NewHandles : /\ handles'[h].ptr \in NewPtrs
                        /\ ptrs'[handles'[h].ptr].by \in {"QTS_NewString", "QTS_NewFloat64"}}

\* A temporary key is disposed once, by the last primitive call of the
\* operation, which follows the call it was made for when that took place.
KeyReleased(h) ==
    /\ ~handles'[h].alive /\ ptrs'[handles'[h].ptr].frees = 1
    /\ Pos(last'.ffi, <<"QTS_FreeValuePointer", handles'[h].ptr>>) = Len(last'.ffi)
    /\ Times(last'.ffi, "QTS_FreeValuePointer") = 1
    /\ last'.raised = NoRaise =>
          last'.ffi[Len(last'.ffi) - 1][1] = (IF last'.op = "getProp" THEN "QTS_GetProp"
                                              ELSE "QTS_SetProp")
    /\ last'.raised # NoRaise =>
          /\ Times(last'.ffi, "QTS_GetProp") = 0 /\ Times(last'.ffi, "QTS_SetProp") = 0

\* A key that is a handle is left as it was, and nothing is freed.
KeyUntouched(k) ==
    /\ handles'[k] = handles[k]
    /\ ptrs'[handles[k].ptr].frees = ptrs[handles[k].ptr].frees
    /\ Times(last'.ffi, "QTS_FreeValuePointer") = 0
    /\ TempKeys = {}

C22_BufferStep ==
    /\ Len(last'.heap) = Len(BuffersOf)
    /\ \A i \in 1..Len(last'.heap) :
          last'.heap[i].kind = BuffersOf[i] /\ ReleasedAfterCall(last'.heap[i])

C22_KeyStep ==
    last'.op \in {"getProp", "setProp"} =>
        IF last'.key = "handle" THEN KeyUntouched(last'.args[2])
        ELSE /\ Cardinality(TempKeys) = (IF memory.entries[1].alive THEN 1 ELSE 0)
             /\ \A h \in TempKeys : KeyReleased(h)

\* C22: the encoded string of evalCode and newString, the pointer array of
\* callFunction and the temporary value getProp and setProp make of a string
\* or number key are released exactly once, right after the call of the
\* primitive they were made for, also when that call raises, and none is
\* retained; a key passed as a handle is not disposed by getProp or setProp.
C22_Transients == [][C22_BufferStep /\ C22_KeyStep]_vars

\* callFunction on a function handle that is not alive: reading func.value
\* raises inside consume, after the pointer array was made.
C22_Witness ==
    /\ last.op = "callFunction" /\ last.raised = "UseAfterFree"
    /\ memory.entries[1].alive
    /\ Len(last.heap) = 1 /\ last.heap[1].kind = "array" /\ last.heap[1].frees = 1
    /\ last.ffi = <<>>
====
